---- MODULE Spec2Model ----
(***************************************************************************)
(* A model of the OpenDART backfill engine: etl/financials.py              *)
(* (parse_amount, transform_financial_data, fetch_company_financials,      *)
(* backfill_company, _record_progress, get_companies_for_backfill) and the *)
(* fleet driver of cli.py (backfill_command).                              *)
(*                                                                         *)
(* The store holds two tables: financial_fundamentals, a bag of rows, and  *)
(* backfill_progress, a set of rows.  Every statement of the code is       *)
(* followed at once by session.commit(), so one transaction (execute and   *)
(* commit) is one atomic step that either becomes durable or fails; a      *)
(* process killed between two steps loses its memory and keeps the store.  *)
(* The timestamps fetched_at and processed_at are left out.                *)
(***************************************************************************)
EXTENDS Integers, Sequences, FiniteSets, Bags, TLC

VARIABLES
    fundamentals,   \* table financial_fundamentals (durable): a bag of rows
    progress,       \* table backfill_progress (durable): a set of rows
    pc,             \* position of the process
    cfg,            \* options of the running command
    companies,      \* cli.py: companies, the list the driver walks
    company_idx,    \* cli.py: company_idx (1-based here)
    unit_idx,       \* position of backfill_company in years x report_codes
    stats,          \* backfill_company: stats
    aggregate,      \* backfill_command: aggregate
    records,        \* fetch_company_financials: records (transformed batch)
    rowcount,       \* result.rowcount of the last line-item insert
    status,         \* the (records, status) pair fetch_company_financials returns
    last_answer,    \* what the remote gave to this unit's call
    exit_state,     \* how the last command ended
    run_calls,      \* units for which this backfill_company run called the remote
    called,         \* companies for which this command called the remote
    run_written,    \* rows the inserts of this backfill_company run wrote (history)
    tallied,        \* the units this command counted, with the counter (history)
    retry_of,       \* unit that was rate limited in the run the driver retries, or 0
    n_calls,        \* remote calls issued so far
    n_faults,       \* exceptions of the network and the store, and kills, so far
    remote,         \* the data answer the remote holds for each unit, when it is fixed
    key_events,     \* table key_events (durable): a set of rows, primary key rcept_no
    ev_pc,          \* position of fetch_all_events
    ev_kind,        \* fetch_all_events: position in kinds (1-based)
    ev_stats,       \* fetch_all_events: stats
    ev_records,     \* fetch_all_events: records (transformed batch)
    ev_rowcount,    \* result.rowcount of the last key-event insert
    financial_notes,\* table financial_notes (durable): a set of rows
    note_pc,        \* position of ingest_xbrl
    note_call,      \* ingest_xbrl: corp_code, year, report_code and rcept_no
    note_blocks,    \* ingest_xbrl: text_blocks
    note_stats,     \* ingest_xbrl: stats
    note_now,       \* the clock read by ingest_xbrl (datetime.now)
    last_updated,   \* column last_updated of companies (durable); 0 is NULL
    job_pc,         \* position of monthly_sync_job
    job_idx,        \* monthly_sync_job: place in the company loop
    job_stats,      \* monthly_sync_job: stats
    job_out,        \* what the caller of monthly_sync_job sees
    job_hist,       \* what happened in the job so far (history)
    job_clock,      \* the clock read by monthly_sync_job (datetime.utcnow)
    clock,          \* time.time(), in ticks
    last_request_time, \* DartClient._last_request_time
    th_pc,          \* position of each caller in the client's operation
    th_op,          \* the operation each caller is in
    wake_at,        \* when the sleep of each caller ends
    released,       \* the times at which the throttle released a call (history)
    waited,         \* whether each release followed a sleep (history)
    fn_arg,         \* argument of the helper called
    fn_width,       \* _normalize_code: width
    fn_call,        \* the helper called, if any
    fn_result,      \* what the helper returned
    race,           \* the backfill_company runs that share the store, each with its locals
    race_calls,     \* remote calls the racing runs issued so far
    co_table,       \* table companies as the session's transaction sees it
    co_before,      \* table companies when the ingestion began (history)
    session_new,    \* Session.new: the companies added and not yet flushed
    session_dirty,  \* companies whose ticker was cleared in memory, not yet flushed
    autoflush,      \* the session's autoflush option
    on_stock_code_reuse, \* ingest_companies_from_csv: on_stock_code_reuse
    csv_rows,       \* ingest_companies_from_csv: rows
    row_idx,        \* place of the loop in rows (1-based)
    ing_stats,      \* ingest_companies_from_csv: stats
    seen_corp_codes,\* ingest_companies_from_csv: seen_corp_codes
    ing_pc,         \* position of ingest_companies_from_csv
    row_log         \* what was done with each row read so far (history)

backfill_vars == << fundamentals, progress, pc, cfg, companies, company_idx, unit_idx,
                    stats, aggregate, records, rowcount, status, last_answer, exit_state,
                    run_calls, called, run_written, tallied, retry_of, n_calls, n_faults,
                    remote >>

events_vars == << key_events, ev_pc, ev_kind, ev_stats, ev_records, ev_rowcount >>

notes_vars == << financial_notes, note_pc, note_call, note_blocks, note_stats, note_now >>

job_vars == << last_updated, job_pc, job_idx, job_stats, job_out, job_hist, job_clock >>

throttle_vars == << clock, last_request_time, th_pc, th_op, wake_at, released, waited >>

helper_vars == << fn_arg, fn_width, fn_call, fn_result >>

\* the client's throttle and the helpers, which no other part changes
race_vars == << race, race_calls >>

roster_vars == << co_table, co_before, session_new, session_dirty, autoflush,
                  on_stock_code_reuse, csv_rows, row_idx, ing_stats, seen_corp_codes,
                  ing_pc, row_log >>

late_vars == << race_vars, roster_vars >>

rest_vars == << throttle_vars, helper_vars, late_vars >>

vars == << backfill_vars, events_vars, notes_vars, job_vars, rest_vars >>

\* what no step of the backfill changes
backfill_frame == << remote, events_vars, notes_vars, job_vars, rest_vars >>

(***************************************************************************)
(* Bounds of the model.                                                    *)
(***************************************************************************)
NumCompanies == 2
NumYears == 1
MaxCalls == 4
MaxFaults == 1
MaxIngests == 2
NumCallers == 2
MaxTicks == 5
MaxReleases == 3
MaxText == 3
MaxCodeLen == 8
MaxRaceCalls == 3
MaxRows == 2

(***************************************************************************)
(* Program constants.                                                      *)
(***************************************************************************)
StartYear == 2015
CurrentYear == StartYear + NumYears - 1

\* financials.py REPORT_CODES, in the order of the dict's keys
REPORT_CODES == << "11013", "11012", "11014", "11011" >>

NO_DATA == "013"
RATE_LIMIT == "020"
DATA_NOT_EXIST == "800"

\* an absent value (Python None) is the empty sequence, a present one <<v>>
None == << >>
Some(v) == << v >>

Range(s) == { s[i] : i \in DOMAIN s }

(***************************************************************************)
(* parse_amount.  A raw value is None, NaN, a number or a string; a string *)
(* is a sequence of one-character strings.                                 *)
(***************************************************************************)
Digits == { "0", "1", "2", "3", "4", "5", "6", "7", "8", "9" }

DigitVal(c) ==
    CASE c = "0" -> 0 [] c = "1" -> 1 [] c = "2" -> 2 [] c = "3" -> 3
      [] c = "4" -> 4 [] c = "5" -> 5 [] c = "6" -> 6 [] c = "7" -> 7
      [] c = "8" -> 8 [] c = "9" -> 9

RECURSIVE Without(_, _)
Without(s, c) ==
    IF s = << >> THEN << >>
    ELSE IF Head(s) = c THEN Without(Tail(s), c)
    ELSE << Head(s) >> \o Without(Tail(s), c)

RECURSIVE LStrip(_)
LStrip(s) == IF s # << >> /\ Head(s) = " " THEN LStrip(Tail(s)) ELSE s

RECURSIVE RStrip(_)
RStrip(s) ==
    IF s # << >> /\ s[Len(s)] = " " THEN RStrip(SubSeq(s, 1, Len(s) - 1)) ELSE s

Strip(s) == RStrip(LStrip(s))

RECURSIVE DigitsValue(_, _)
DigitsValue(s, acc) ==
    IF s = << >> THEN acc ELSE DigitsValue(Tail(s), 10 * acc + DigitVal(Head(s)))

\* the text Python's int() accepts: an optional sign, then digits, single
\* underscores allowed between digits
IsIntBody(b) ==
    /\ b # << >>
    /\ \A i \in DOMAIN b : b[i] \in Digits \cup { "_" }
    /\ b[1] \in Digits /\ b[Len(b)] \in Digits
    /\ \A i \in 1 .. Len(b) - 1 : ~(b[i] = "_" /\ b[i + 1] = "_")

IntOfText(s) ==
    LET signed == s # << >> /\ Head(s) \in { "+", "-" }
        body == IF signed THEN Tail(s) ELSE s
    IN  IF ~IsIntBody(body) THEN None
        ELSE LET v == DigitsValue(Without(body, "_"), 0)
             IN  Some(IF signed /\ Head(s) = "-" THEN 0 - v ELSE v)

\* int() of a finite float, given in tenths: truncation toward zero
TruncTenths(t) == IF t >= 0 THEN t \div 10 ELSE 0 - ((0 - t) \div 10)

\* what int() raises for an infinite float
OverflowError == << "OverflowError", "cannot convert float infinity to integer" >>

parse_amount(value) ==
    IF value.kind \in { "none", "nan" } THEN None
    ELSE IF value.kind = "num" THEN Some(value.num)
    ELSE IF value.kind = "float" THEN Some(TruncTenths(value.tenths))
    ELSE IF value.kind = "inf" THEN OverflowError
    ELSE LET value_str == Strip(value.chars)
         IN  IF value_str = << >> \/ value_str = << "-" >> THEN None
             ELSE IntOfText(Without(value_str, ","))

NoneValue == [kind |-> "none"]
NaN == [kind |-> "nan"]
Num(n) == [kind |-> "num", num |-> n]
Str(chars) == [kind |-> "str", chars |-> chars]
\* a finite float, in tenths, and the two infinite ones
Float(tenths) == [kind |-> "float", tenths |-> tenths]
Inf(sign) == [kind |-> "inf", sign |-> sign]

(***************************************************************************)
(* transform_financial_data.  A raw row is a function from the column      *)
(* names it carries to values.                                             *)
(***************************************************************************)
Get(row, col, default) == IF col \in DOMAIN row THEN row[col] ELSE default

AMOUNT_COLUMNS == << "thstrm_amount", "frmtrm_amount", "bfefrmtrm_amount", "amount" >>

NotNa(value) == value.kind \notin { "none", "nan" }

RowAmount(row) ==
    LET present == { i \in DOMAIN AMOUNT_COLUMNS :
                       AMOUNT_COLUMNS[i] \in DOMAIN row /\ NotNa(row[AMOUNT_COLUMNS[i]]) }
    IN  IF present = { } THEN None
        ELSE parse_amount(row[AMOUNT_COLUMNS[CHOOSE i \in present : \A j \in present : i <= j]])

TransformRow(row, corp_code, year, report_code) ==
    [ corp_code |-> corp_code,
      year |-> year,
      report_code |-> report_code,
      fs_div |-> Get(row, "fs_div", "OFS"),
      account_id |-> Get(row, "account_id", Get(row, "sj_div", "")),
      account_name |-> Get(row, "account_nm", Get(row, "account_detail", "")),
      amount |-> RowAmount(row),
      version |-> 1 ]

transform_financial_data(df, corp_code, year, report_code) ==
    [ i \in DOMAIN df |-> TransformRow(df[i], corp_code, year, report_code) ]

(***************************************************************************)
(* The store.                                                              *)
(***************************************************************************)
\* models.py unique_financial_entry, the index_elements of the insert
ConflictKey(r) ==
    << r.corp_code, r.year, r.report_code, r.fs_div, r.account_id, r.version >>

BusinessKey(r) == << r.corp_code, r.year, r.report_code, r.fs_div, r.account_id >>

\* the insert without its ON CONFLICT clause, on a table without the constraint
RECURSIVE InsertPlain(_, _)
InsertPlain(table, recs) ==
    IF recs = << >> THEN [table |-> table, rowcount |-> 0]
    ELSE LET rest == InsertPlain(table (+) SetToBag({ Head(recs) }), Tail(recs))
         IN  [table |-> rest.table, rowcount |-> rest.rowcount + 1]

\* a refresh: the stored rows of the batch's unit are deleted, then the batch is
\* inserted
InsertReplacingUnit(table, recs) ==
    LET units == { << recs[i].corp_code, recs[i].year, recs[i].report_code >> : i \in DOMAIN recs }
        kept == { x \in BagToSet(table) : << x.corp_code, x.year, x.report_code >> \notin units }
    IN  [table |-> [ x \in kept |-> CopiesIn(x, table) ] (+) SetToBag({ recs[i] : i \in DOMAIN recs }),
         rowcount |-> Len(recs)]

\* INSERT ... VALUES (recs) ON CONFLICT (key) DO NOTHING: the rows are taken in
\* order, a row whose key is stored or was inserted earlier in the same
\* statement is dropped; rowcount is the number of rows inserted
RECURSIVE InsertOnConflictDoNothing(_, _)
InsertOnConflictDoNothing(table, recs) ==
    IF recs = << >> THEN [table |-> table, rowcount |-> 0]
    ELSE LET r == Head(recs)
             conflict == \E x \in BagToSet(table) : ConflictKey(x) = ConflictKey(r)
             t1 == IF conflict THEN table ELSE table (+) SetToBag({ r })
             rest == InsertOnConflictDoNothing(t1, Tail(recs))
         IN  [table |-> rest.table,
              rowcount |-> rest.rowcount + (IF conflict THEN 0 ELSE 1)]

\* financials.py line 154
Inserted(n, recs) == IF n # 0 THEN n ELSE Len(recs)

ProgressKey(p) == << p.corp_code, p.year, p.report_code >>

\* the insert without ON CONFLICT, on a table without the unique constraint
record_progress_InsertOnly(table, corp_code, year, report_code, st, error_message) ==
    table \cup { [corp_code |-> corp_code, year |-> year, report_code |-> report_code,
                  status |-> st, error_message |-> error_message] }

\* the insert with ON CONFLICT DO NOTHING: the row stored first is kept
record_progress_KeepOld(table, corp_code, year, report_code, st, error_message) ==
    IF \E p \in table : << p.corp_code, p.year, p.report_code >> = << corp_code, year, report_code >>
    THEN table
    ELSE table \cup { [corp_code |-> corp_code, year |-> year, report_code |-> report_code,
                       status |-> st, error_message |-> error_message] }

\* _record_progress: INSERT ... ON CONFLICT (corp_code, year, report_code) DO UPDATE
record_progress(table, corp_code, year, report_code, st, error_message) ==
    LET row == [corp_code |-> corp_code, year |-> year, report_code |-> report_code,
                status |-> st, error_message |-> error_message]
    IN  { p \in table : ProgressKey(p) # ProgressKey(row) } \cup { row }

\* any row of the unit taken as done, whatever its status
IsDone_AnyRow(table, corp_code, year, report_code) ==
    \E p \in table : << p.corp_code, p.year, p.report_code >> = << corp_code, year, report_code >>

\* the status compared with a misspelt word
IsDone_Typo(table, corp_code, year, report_code) ==
    \E p \in table : /\ ProgressKey(p) = << corp_code, year, report_code >>
                     /\ p.status = "complete"

\* backfill_company lines 227-236: a row of the unit with status completed
IsDone(table, corp_code, year, report_code) ==
    \E p \in table : /\ ProgressKey(p) = << corp_code, year, report_code >>
                     /\ p.status = "completed"

(***************************************************************************)
(* The roster and the units of a company.                                  *)
(***************************************************************************)
\* companies table: corp_code c stands for the code zero-padded to 8 digits
Roster == { [corp_code |-> c, is_priority |-> (c % 2 = 0)] : c \in 1 .. NumCompanies }

RECURSIVE Ascending(_)
Ascending(codes) ==
    IF codes = { } THEN << >>
    ELSE LET m == CHOOSE c \in codes : \A d \in codes : c <= d
         IN  << m >> \o Ascending(codes \ { m })

\* ORDER BY corp_code alone
get_companies_for_backfill_ByCode(priority_only) ==
    LET prio == { r.corp_code : r \in { x \in Roster : x.is_priority } }
    IN  IF priority_only THEN Ascending(prio) ELSE Ascending({ r.corp_code : r \in Roster })

\* ORDER BY is_priority DESC, corp_code
get_companies_for_backfill(priority_only) ==
    LET prio == { r.corp_code : r \in { x \in Roster : x.is_priority } }
        rest == { r.corp_code : r \in { x \in Roster : ~x.is_priority } }
    IN  IF priority_only THEN Ascending(prio) ELSE Ascending(prio) \o Ascending(rest)

get_years_to_backfill(start_year) == [ i \in 1 .. (CurrentYear - start_year + 1) |-> start_year + i - 1 ]

get_report_codes == REPORT_CODES

NumUnits == Len(get_years_to_backfill(StartYear)) * Len(get_report_codes)

\* the k-th unit of the loops "for year in years: for report_code in report_codes"
UnitAt(k) ==
    [ year |-> get_years_to_backfill(StartYear)[((k - 1) \div Len(get_report_codes)) + 1],
      report_code |-> get_report_codes[((k - 1) % Len(get_report_codes)) + 1] ]

(***************************************************************************)
(* The remote.  An answer is what OpenDartReader gives to one call.        *)
(***************************************************************************)
Chars_1234 == << "1", ",", "2", "3", "4" >>
Chars_2000 == << "2", ",", "0", "0", "0" >>

FrameA ==
    << [fs_div |-> "CFS", account_id |-> "a1", account_nm |-> "Assets",
        thstrm_amount |-> Str(Chars_1234)],
       [fs_div |-> "CFS", account_id |-> "a2", account_nm |-> "Debt",
        thstrm_amount |-> Str(<< "-" >>)] >>

\* a restated amount for a1, and the key a1 twice in one answer
FrameB ==
    << [fs_div |-> "CFS", account_id |-> "a1", account_nm |-> "Assets",
        thstrm_amount |-> Str(Chars_2000)],
       [fs_div |-> "CFS", account_id |-> "a1", account_nm |-> "Assets",
        thstrm_amount |-> Str(Chars_1234)] >>

Answer(kind, rows, st) == [kind |-> kind, rows |-> rows, status |-> st]

RemoteAnswers ==
    { Answer("none", << >>, ""), Answer("frame", << >>, ""),
      Answer("frame", FrameA, ""), Answer("frame", FrameB, ""),
      Answer("status", << >>, NO_DATA), Answer("status", << >>, RATE_LIMIT),
      Answer("status", << >>, DATA_NOT_EXIST), Answer("raise", << >>, "") }

\* DartClient.finstate_all with _check_error
finstate_all(answer) ==
    IF answer.kind = "none" THEN [kind |-> "df", rows |-> << >>, code |-> ""]
    ELSE IF answer.kind = "status" /\ answer.status # "000"
         THEN [kind |-> "dart_error", rows |-> << >>, code |-> answer.status]
    ELSE IF answer.kind = "raise" THEN [kind |-> "exception", rows |-> << >>, code |-> ""]
    ELSE [kind |-> "df", rows |-> answer.rows, code |-> ""]

(***************************************************************************)
(* fetch_company_financials and the tally of backfill_company.             *)
(***************************************************************************)
\* the branches of lines 162-165 exchanged: `skip` gives "stopped"
FetchStatus_SkipStops(out, on_error_013) ==
    IF out.kind = "df" THEN (IF out.rows = << >> THEN "no_data" ELSE "no_records")
    ELSE IF out.kind = "dart_error" THEN
        IF out.code = "013" THEN
            (IF on_error_013 = "skip" THEN "stopped"
             ELSE IF on_error_013 = "stop" THEN "skipped" ELSE "skipped")
        ELSE IF out.code = "020" THEN "rate_limited"
        ELSE "error_" \o out.code
    ELSE "error"

\* the status returned when no insert is attempted (lines 129-136, 159-180)
FetchStatus(out, on_error_013) ==
    IF out.kind = "df" THEN (IF out.rows = << >> THEN "no_data" ELSE "no_records")
    ELSE IF out.kind = "dart_error" THEN
        IF out.code = NO_DATA THEN
            (IF on_error_013 = "skip" THEN "skipped"
             ELSE IF on_error_013 = "stop" THEN "stopped" ELSE "skipped")
        ELSE IF out.code = RATE_LIMIT THEN "rate_limited"
        ELSE "error_" \o out.code
    ELSE "error"

ZeroStats ==
    [total_records |-> 0, successful |-> 0, skipped |-> 0, errors |-> 0,
     rate_limited |-> FALSE]

\* the counter of stats that lines 246-258 increment for a status, if any
CounterOf(s) ==
    IF s = "success" THEN "successful"
    ELSE IF s \in { "skipped", "no_data", "no_records" } THEN "skipped"
    ELSE IF s = "rate_limited" THEN "none"
    ELSE "errors"

\* unit k of company c counted for status s
Counted(c, k, s) ==
    IF CounterOf(s) = "none" THEN EmptyBag
    ELSE SetToBag({ [corp_code |-> c, unit |-> k, counter |-> CounterOf(s)] })

\* an error status counted with the skipped ones
Tally_ErrorSkipped(st, n, s) ==
    LET t == [st EXCEPT !.total_records = @ + n]
    IN  IF s = "success" THEN [t EXCEPT !.successful = @ + 1]
        ELSE IF s = "rate_limited" THEN [t EXCEPT !.rate_limited = TRUE]
        ELSE [t EXCEPT !.skipped = @ + 1]

\* backfill_company lines 244-258
Tally(st, n, s) ==
    LET t == [st EXCEPT !.total_records = @ + n]
    IN  IF s = "success" THEN [t EXCEPT !.successful = @ + 1]
        ELSE IF s \in { "skipped", "no_data", "no_records" } THEN [t EXCEPT !.skipped = @ + 1]
        ELSE IF s = "rate_limited" THEN [t EXCEPT !.rate_limited = TRUE]
        ELSE [t EXCEPT !.errors = @ + 1]

\* every status but rate_limited falls through to line 261
Checkpoint_FallThrough(s) ==
    IF s = "rate_limited" THEN [status |-> "rate_limited", error_message |-> None]
    ELSE [status |-> "completed", error_message |-> None]

\* the checkpoint backfill_company records for a status (lines 253, 257, 261)
Checkpoint(s) ==
    IF s = "rate_limited" THEN [status |-> "rate_limited", error_message |-> None]
    ELSE IF s \in { "success", "skipped", "no_data", "no_records" }
         THEN [status |-> "completed", error_message |-> None]
    ELSE [status |-> "failed", error_message |-> Some(s)]

\* the return of line 254 left out
ReturnsAfterRecord_Never(s) == FALSE

\* line 254: after the rate_limited checkpoint the function returns
ReturnsAfterRecord(s) == s = "rate_limited"

\* lines 129-136: the answer carries rows to insert
HasRows(out, recs) == out.kind = "df" /\ out.rows # << >> /\ recs # << >>

\* the body of the loop of backfill_company (lines 226-261) run with no fault on
\* a store [fundamentals, progress], for a unit whose call gave `out`,
\* transformed to `recs`: the store it leaves
ProcessUnit(store, corp_code, k, out, recs, on_error_013) ==
    LET u == UnitAt(k)
    IN  IF IsDone(store.progress, corp_code, u.year, u.report_code) THEN store
        ELSE LET s == IF HasRows(out, recs) THEN "success" ELSE FetchStatus(out, on_error_013)
                 ck == Checkpoint(s)
             IN  [fundamentals |->
                      IF HasRows(out, recs)
                      THEN InsertOnConflictDoNothing(store.fundamentals, recs).table
                      ELSE store.fundamentals,
                  progress |-> record_progress(store.progress, corp_code, u.year,
                                               u.report_code, ck.status, ck.error_message)]

(***************************************************************************)
(* The state machine.                                                      *)
(***************************************************************************)
ZeroAggregate ==
    [total_records |-> 0, successful |-> 0, skipped |-> 0, errors |-> 0,
     rate_limited |-> FALSE]

Config(on_error_013, on_rate_limit, priority_only) ==
    [on_error_013 |-> on_error_013, on_rate_limit |-> on_rate_limit,
     priority_only |-> priority_only]

\* the option combinations the commands are started with
Configs ==
    { Config("skip", "pause", FALSE), Config("mark", "prompt", TRUE),
      Config("stop", "exit", FALSE) }

NoStatus == [inserted |-> 0, status |-> ""]

NoAnswer == Answer("", << >>, "")

CurCorp == companies[company_idx]
CurUnit == UnitAt(unit_idx)
CurDone == IsDone(progress, CurCorp, CurUnit.year, CurUnit.report_code)

\* no fixed remote: every call is answered freely
NoRemote == << >>

\* events.py lines 150-154
ZeroEventStats == [total_records |-> 0, successful |-> 0, errors |-> 0]

\* xbrl.py lines 132-136
ZeroNoteStats == [total_notes |-> 0, successful |-> 0, errors |-> 0]

NoNoteCall == [corp_code |-> 0, year |-> 0, report_code |-> "", rcept_no |-> << >>]

\* no event sync is running and the key_events table is empty
EventsIdle ==
    /\ key_events = { }
    /\ ev_pc = "idle"
    /\ ev_kind = 1
    /\ ev_stats = ZeroEventStats
    /\ ev_records = << >>
    /\ ev_rowcount = 0

\* no note ingestion is running and the financial_notes table is empty
NotesIdle ==
    /\ financial_notes = { }
    /\ note_pc = "idle"
    /\ note_call = NoNoteCall
    /\ note_blocks = << >>
    /\ note_stats = ZeroNoteStats
    /\ note_now = 0

ZeroJobStats ==
    [financials_records |-> 0, financials_companies |-> 0, financials_errors |-> 0,
     events_records |-> 0, events_errors |-> 0]

\* nothing has happened in the job
NoJobHist ==
    [fetched |-> { }, unit_failed |-> FALSE, event_failed |-> FALSE, event_runs |-> 0,
     calls |-> 0, calls_failed |-> 0]

\* no job is running and no company has been synced
JobIdle ==
    /\ last_updated = [ c \in { r.corp_code : r \in Roster } |-> 0 ]
    /\ job_pc = "idle"
    /\ job_idx = 1
    /\ job_stats = ZeroJobStats
    /\ job_out = "none"
    /\ job_hist = NoJobHist
    /\ job_clock = 0

\* config.py line 35: request_delay (0.15 s), in ticks
request_delay == 2

\* time.time() when the client is constructed: long after the epoch
Epoch == request_delay + 1

Callers == 1 .. NumCallers

\* api.py line 53: a new client, no caller in one of its operations
ThrottleIdle ==
    /\ clock = Epoch
    /\ last_request_time = 0
    /\ th_pc = [ t \in Callers |-> "idle" ]
    /\ th_op = [ t \in Callers |-> "none" ]
    /\ wake_at = [ t \in Callers |-> 0 ]
    /\ released = << >>
    /\ waited = << >>

\* no helper has been called
HelperIdle ==
    /\ fn_arg = NoneValue
    /\ fn_width = 0
    /\ fn_call = "none"
    /\ fn_result = None

\* no run races another
RaceIdle ==
    /\ race = << >>
    /\ race_calls = 0

\* companies.py lines 126-134
ZeroIngestStats ==
    [total_rows |-> 0, created |-> 0, skipped_duplicates |-> 0, skipped_invalid |-> 0,
     skipped_stock_conflicts |-> 0, reassigned_stock_codes |-> 0, errors |-> 0]

\* no roster is being ingested and the table companies is empty
RosterIdle ==
    /\ co_table = { }
    /\ co_before = { }
    /\ session_new = << >>
    /\ session_dirty = { }
    /\ autoflush = FALSE
    /\ on_stock_code_reuse = "reject"
    /\ csv_rows = << >>
    /\ row_idx = 1
    /\ ing_stats = ZeroIngestStats
    /\ seen_corp_codes = { }
    /\ ing_pc = "idle"
    /\ row_log = << >>

RestIdle == ThrottleIdle /\ HelperIdle /\ RaceIdle /\ RosterIdle

\* no backfill command is running and its two tables are empty
BackfillIdle ==
    /\ fundamentals = EmptyBag
    /\ progress = { }
    /\ pc = "idle"
    /\ companies = << >>
    /\ company_idx = 1
    /\ unit_idx = 1
    /\ stats = ZeroStats
    /\ aggregate = ZeroAggregate
    /\ records = << >>
    /\ rowcount = 0
    /\ status = NoStatus
    /\ last_answer = NoAnswer
    /\ exit_state = "none"
    /\ run_calls = << >>
    /\ called = { }
    /\ run_written = 0
    /\ tallied = EmptyBag
    /\ retry_of = 0
    /\ n_calls = 0
    /\ n_faults = 0

Init ==
    /\ BackfillIdle
    /\ cfg \in Configs
    /\ remote = NoRemote
    /\ EventsIdle
    /\ NotesIdle
    /\ JobIdle
    /\ RestIdle

\* the status with which the command's process exits: 0 when backfill_command
\* returns, 1 when an exception leaves it, 137 when it is killed
ExitCode(how) == IF how = "ok" THEN 0 ELSE IF how = "raised" THEN 1 ELSE 137

\* the process is gone: its memory is lost, the store stays
ProcessEnds(how) ==
    /\ pc' = "idle"
    /\ exit_state' = how
    /\ cfg' = cfg
    /\ companies' = << >>
    /\ company_idx' = 1
    /\ unit_idx' = 1
    /\ stats' = ZeroStats
    /\ records' = << >>
    /\ rowcount' = 0
    /\ status' = NoStatus
    /\ last_answer' = NoAnswer
    /\ run_calls' = << >>
    /\ called' = { }
    /\ run_written' = 0
    /\ tallied' = EmptyBag
    /\ retry_of' = 0

\* cli.py backfill_command, lines 242-266 (fleet branch); every command of a
\* behaviour is started with the same options cfg
StartBackfill ==
    /\ pc = "idle"
    /\ UNCHANGED backfill_frame
    /\ cfg' = cfg
    /\ companies' = get_companies_for_backfill(cfg.priority_only)
    /\ company_idx' = 1
    /\ aggregate' = ZeroAggregate
    /\ exit_state' = "running"
    /\ pc' = "driver"
    /\ UNCHANGED << last_answer, fundamentals, progress, unit_idx, stats, records, rowcount,
                    status, run_calls, run_written, retry_of, n_calls, n_faults >>
    /\ called' = { }
    /\ tallied' = EmptyBag

\* cli.py lines 268-277: call backfill_company for the company at company_idx,
\* which sets up stats (financials.py 213-222)
EnterCompany ==
    /\ pc = "driver"
    /\ UNCHANGED backfill_frame
    /\ company_idx <= Len(companies)
    /\ stats' = ZeroStats
    /\ unit_idx' = 1
    /\ run_calls' = << >>
    /\ called' = called
    /\ run_written' = 0
    /\ tallied' = tallied
    /\ pc' = "check"
    /\ UNCHANGED << last_answer, fundamentals, progress, cfg, companies, company_idx, aggregate,
                    records, rowcount, status, exit_state, retry_of, n_calls,
                    n_faults >>

\* cli.py lines 268, 310: the loop is over, the summary is printed
FinishCommand ==
    /\ pc = "driver"
    /\ UNCHANGED backfill_frame
    /\ company_idx > Len(companies)
    /\ ProcessEnds("ok")
    /\ UNCHANGED << fundamentals, progress, aggregate, n_calls, n_faults >>

\* financials.py lines 224-238 and 263
CheckUnit ==
    /\ pc = "check"
    /\ UNCHANGED backfill_frame
    /\ IF unit_idx > NumUnits
       THEN pc' = "returned" /\ unit_idx' = unit_idx
       ELSE IF CurDone
            THEN pc' = "check" /\ unit_idx' = unit_idx + 1
            ELSE pc' = "fetch" /\ unit_idx' = unit_idx
    /\ UNCHANGED << last_answer, fundamentals, progress, cfg, companies, company_idx, stats,
                    aggregate, records, rowcount, status, exit_state, run_calls, called,
                    run_written, tallied, retry_of, n_calls, n_faults >>

\* financials.py lines 126-136, 159-180 and the tally of 244-258: the remote
\* call; an answer with rows goes on to the insert
RemoteCall(answer) ==
    /\ pc = "fetch"
    /\ UNCHANGED backfill_frame
    /\ n_calls' = n_calls + 1
    /\ IF answer.kind = "raise"
       THEN n_faults < MaxFaults /\ n_faults' = n_faults + 1
       ELSE n_faults' = n_faults
    /\ run_calls' = Append(run_calls, unit_idx)
    /\ called' = called \cup { CurCorp }
    /\ last_answer' = answer
    /\ LET out == finstate_all(answer)
           recs == transform_financial_data(out.rows, CurCorp, CurUnit.year,
                                            CurUnit.report_code)
       IN  IF HasRows(out, recs)
           THEN /\ records' = recs
                /\ pc' = "insert"
                /\ UNCHANGED << status, stats, tallied >>
           ELSE LET s == FetchStatus(out, cfg.on_error_013)
                IN  /\ records' = << >>
                    /\ status' = [inserted |-> 0, status |-> s]
                    /\ stats' = Tally(stats, 0, s)
                    /\ tallied' = tallied (+) Counted(CurCorp, unit_idx, s)
                    /\ pc' = "record"
    /\ UNCHANGED << fundamentals, progress, cfg, companies, company_idx, unit_idx,
                    aggregate, rowcount, exit_state, run_written, retry_of >>

\* the remote answers the call with any of its answers
Fetch(answer) ==
    /\ n_calls < MaxCalls
    /\ RemoteCall(answer)

\* financials.py lines 138-157 and the tally: the insert commits
InsertItems ==
    /\ pc = "insert"
    /\ UNCHANGED backfill_frame
    /\ LET res == InsertOnConflictDoNothing(fundamentals, records)
           inserted == Inserted(res.rowcount, records)
       IN  /\ fundamentals' = res.table
           /\ rowcount' = res.rowcount
           /\ status' = [inserted |-> inserted, status |-> "success"]
           /\ stats' = Tally(stats, inserted, "success")
           /\ run_written' = run_written + res.rowcount
    /\ tallied' = tallied (+) Counted(CurCorp, unit_idx, "success")
    /\ pc' = "record"
    /\ UNCHANGED << last_answer, progress, cfg, companies, company_idx, unit_idx, aggregate,
                    records, exit_state, run_calls, called, retry_of, n_calls, n_faults >>

\* financials.py lines 177-180: the insert or its commit raises; rollback
InsertItemsFault ==
    /\ pc = "insert"
    /\ UNCHANGED backfill_frame
    /\ n_faults < MaxFaults
    /\ n_faults' = n_faults + 1
    /\ status' = [inserted |-> 0, status |-> "error"]
    /\ stats' = Tally(stats, 0, "error")
    /\ tallied' = tallied (+) Counted(CurCorp, unit_idx, "error")
    /\ pc' = "record"
    /\ UNCHANGED << last_answer, fundamentals, progress, cfg, companies, company_idx, unit_idx,
                    aggregate, records, rowcount, exit_state, run_calls, called, run_written,
                    retry_of, n_calls >>

\* financials.py lines 253-261 with _record_progress (266-292): the checkpoint
\* commits; then return (254) or the next unit
RecordProgress ==
    /\ pc = "record"
    /\ UNCHANGED backfill_frame
    /\ LET ck == Checkpoint(status.status)
       IN  progress' = record_progress(progress, CurCorp, CurUnit.year,
                                       CurUnit.report_code, ck.status, ck.error_message)
    /\ IF ReturnsAfterRecord(status.status)
       THEN pc' = "returned" /\ unit_idx' = unit_idx
       ELSE pc' = "check" /\ unit_idx' = unit_idx + 1
    /\ records' = << >>
    /\ rowcount' = 0
    /\ status' = NoStatus
    /\ last_answer' = NoAnswer
    /\ UNCHANGED << fundamentals, cfg, companies, company_idx, stats, aggregate,
                    exit_state, run_calls, called, run_written, tallied, retry_of, n_calls,
                    n_faults >>

\* _record_progress raises: nothing in backfill_company or backfill_command
\* catches it, db.py get_session rolls back and re-raises
RecordProgressFault ==
    /\ pc = "record"
    /\ UNCHANGED backfill_frame
    /\ n_faults < MaxFaults
    /\ n_faults' = n_faults + 1
    /\ ProcessEnds("raised")
    /\ aggregate' = ZeroAggregate
    /\ UNCHANGED << fundamentals, progress, n_calls >>

\* the `continue` of line 302 left out
NextCompanyIdx_Always(idx, action) == idx + 1

\* cli.py line 308 (and 302: the same company again)
NextCompanyIdx(idx, action) == IF action = "pause" THEN idx ELSE idx + 1

\* what the operator may type at the prompt: a choice or an empty line
PromptInputs == { "pause", "exit", "" }

\* an empty line taken as `pause`
prompt_DefaultPause(input) == IF input = "" THEN "pause" ELSE input

\* cli.py lines 290-294: click.prompt with default="exit"
prompt(input) == IF input = "" THEN "exit" ELSE input

\* cli.py lines 279-308; `choice` is what the operator types at the prompt
AfterCompany(choice) ==
    /\ pc = "returned"
    /\ UNCHANGED backfill_frame
    /\ LET agg == [aggregate EXCEPT !.total_records = @ + stats.total_records,
                                    !.successful = @ + stats.successful,
                                    !.skipped = @ + stats.skipped,
                                    !.errors = @ + stats.errors]
           action == IF cfg.on_rate_limit = "prompt" THEN prompt(choice)
                     ELSE cfg.on_rate_limit
       IN  IF stats.rate_limited
           THEN /\ aggregate' = [agg EXCEPT !.rate_limited = TRUE]
                /\ IF action = "pause"
                   THEN /\ pc' = "driver"
                        /\ company_idx' = NextCompanyIdx(company_idx, "pause")
                        /\ retry_of' = run_calls[Len(run_calls)]
                        /\ UNCHANGED << cfg, companies, unit_idx, stats, records,
                                        rowcount, status, last_answer, exit_state,
                                        run_calls, called, run_written, tallied >>
                   ELSE ProcessEnds("ok")
           ELSE /\ aggregate' = agg
                /\ pc' = "driver"
                /\ company_idx' = NextCompanyIdx(company_idx, "next")
                /\ retry_of' = 0
                /\ UNCHANGED << cfg, companies, unit_idx, stats, records, rowcount,
                                status, last_answer, exit_state, run_calls, called,
                                run_written, tallied >>
    /\ UNCHANGED << fundamentals, progress, n_calls, n_faults >>

\* the process is killed between two steps
Kill ==
    /\ pc # "idle"
    /\ UNCHANGED backfill_frame
    /\ n_faults < MaxFaults
    /\ n_faults' = n_faults + 1
    /\ ProcessEnds("killed")
    /\ aggregate' = ZeroAggregate
    /\ UNCHANGED << fundamentals, progress, n_calls >>

Next ==
    \/ StartBackfill
    \/ EnterCompany
    \/ FinishCommand
    \/ CheckUnit
    \/ \E answer \in RemoteAnswers : Fetch(answer)
    \/ InsertItems
    \/ InsertItemsFault
    \/ RecordProgress
    \/ RecordProgressFault
    \/ \E choice \in PromptInputs : AfterCompany(choice)
    \/ Kill

Spec == Init /\ [][Next]_vars

(***************************************************************************)
(* The backfill against a remote whose data answer for each unit is fixed: *)
(* a call is answered with the unit's data answer or with the rate-limit   *)
(* error.  No fault of the store or the network, no kill.                  *)
(***************************************************************************)
RateLimitError == Answer("status", << >>, RATE_LIMIT)

\* the data answers, in a cycle
DataCycle ==
    << Answer("frame", FrameA, ""), Answer("status", << >>, NO_DATA),
       Answer("frame", FrameB, ""), Answer("status", << >>, DATA_NOT_EXIST),
       Answer("frame", << >>, ""), Answer("none", << >>, "") >>

\* the remotes: unit k of company c holds the answer at place c + k + shift of
\* the cycle
FixedRemotes ==
    { [ c \in { r.corp_code : r \in Roster } |->
          [ k \in 1 .. NumUnits |-> DataCycle[((c + k + shift) % Len(DataCycle)) + 1] ] ] :
      shift \in 0 .. Len(DataCycle) - 1 }

\* remote calls a behaviour may make: one per unit and MaxCalls more
MaxCallsFixed == NumCompanies * NumUnits + MaxCalls

InitFixed ==
    /\ BackfillIdle
    /\ cfg \in Configs
    /\ remote \in FixedRemotes
    /\ EventsIdle
    /\ NotesIdle
    /\ JobIdle
    /\ RestIdle

FetchFixed ==
    /\ pc = "fetch"
    /\ n_calls < MaxCallsFixed
    /\ \E answer \in { remote[CurCorp][unit_idx], RateLimitError } : RemoteCall(answer)

NextFixed ==
    \/ StartBackfill
    \/ EnterCompany
    \/ FinishCommand
    \/ CheckUnit
    \/ FetchFixed
    \/ InsertItems
    \/ RecordProgress
    \/ \E choice \in PromptInputs : AfterCompany(choice)

SpecFixed == InitFixed /\ [][NextFixed]_vars

\* the fleet commands that may stop on the rate limit: the options of a
\* command that exits, or asks, on the rate limit
ExitConfigs ==
    { Config("skip", "exit", FALSE), Config("mark", "prompt", TRUE) }

InitExit ==
    /\ BackfillIdle
    /\ cfg \in ExitConfigs
    /\ remote \in FixedRemotes
    /\ EventsIdle
    /\ NotesIdle
    /\ JobIdle
    /\ RestIdle

SpecExit == InitExit /\ [][NextFixed]_vars

(***************************************************************************)
(* The event sync: etl/events.py (parse_date, transform_events_data,       *)
(* fetch_all_events) on the table key_events.  A raw row is a function     *)
(* from the column names it carries to values; a date text and a title are *)
(* sequences of one-character strings.                                     *)
(***************************************************************************)
IsLeap(y) == (y % 4 = 0 /\ y % 100 # 0) \/ y % 400 = 0

DaysIn(y, m) ==
    IF m = 2 THEN (IF IsLeap(y) THEN 29 ELSE 28)
    ELSE IF m \in { 4, 6, 9, 11 } THEN 30 ELSE 31

AllDigits(s) == \A i \in DOMAIN s : s[i] \in Digits

\* the texts the directives %m and %d of strptime match
MonthText(t) ==
    \/ Len(t) = 2 /\ AllDigits(t) /\ DigitsValue(t, 0) \in 1 .. 12
    \/ Len(t) = 1 /\ AllDigits(t) /\ DigitsValue(t, 0) \in 1 .. 9

DayText(t) ==
    \/ Len(t) = 2 /\ AllDigits(t) /\ DigitsValue(t, 0) \in 1 .. 31
    \/ Len(t) = 2 /\ t[1] = " " /\ t[2] \in Digits /\ t[2] # "0"
    \/ Len(t) = 1 /\ AllDigits(t) /\ DigitsValue(t, 0) \in 1 .. 9

\* datetime.strptime(s, "%Y%m%d").date(): four digits of year, then a month
\* and a day, the month of two digits tried first; None for a ValueError
StrpDate(s) ==
    IF Len(s) < 6 \/ Len(s) > 8 \/ ~AllDigits(SubSeq(s, 1, 4)) THEN None
    ELSE LET y == DigitsValue(SubSeq(s, 1, 4), 0)
             two == MonthText(SubSeq(s, 5, 6)) /\ DayText(SubSeq(s, 7, Len(s)))
             one == MonthText(SubSeq(s, 5, 5)) /\ DayText(SubSeq(s, 6, Len(s)))
             mtext == IF two THEN SubSeq(s, 5, 6) ELSE SubSeq(s, 5, 5)
             dtext == IF two THEN SubSeq(s, 7, Len(s)) ELSE SubSeq(s, 6, Len(s))
             m == DigitsValue(mtext, 0)
             d == DigitsValue(Without(dtext, " "), 0)
         IN  IF ~(two \/ one) THEN None
             ELSE IF y < 1 \/ d > DaysIn(y, m) THEN None
             ELSE Some([year |-> y, month |-> m, day |-> d])

\* events.py lines 16-25; the remote gives a date as text, or no date
parse_date(value) ==
    IF value.kind \in { "none", "nan" } THEN None
    ELSE IF value.chars = << >> THEN None
    ELSE StrpDate(value.chars)

\* str(report_nm)[:255]
Truncate(s, n) == SubSeq(s, 1, IF Len(s) < n THEN Len(s) ELSE n)

\* events.py lines 42-62: the record of one row, or None for a row left out
TransformEvent(row) ==
    LET rcept_no == Get(row, "rcept_no", "")
        event_date == parse_date(Get(row, "rcept_dt", NoneValue))
    IN  IF rcept_no = "" \/ event_date = None THEN None
        ELSE Some([rcept_no |-> rcept_no,
                   corp_code |-> Get(row, "corp_code", Get(row, "corp_cls", 0)),
                   report_nm |-> Truncate(Get(row, "report_nm", << >>), 255),
                   event_date |-> event_date[1]])

RECURSIVE transform_events_data(_)
transform_events_data(df) ==
    IF df = << >> THEN << >>
    ELSE TransformEvent(Head(df)) \o transform_events_data(Tail(df))

\* the insert without ON CONFLICT: a stored receipt number violates the
\* primary key and the statement fails
RECURSIVE InsertKeyEventsPlain(_, _, _)
InsertKeyEventsPlain(table, recs, corp_codes) ==
    IF recs = << >> THEN [table |-> table, rowcount |-> 0, error |-> FALSE]
    ELSE LET r == Head(recs)
             conflict == \E x \in table : x.rcept_no = r.rcept_no
         IN  IF conflict \/ r.corp_code \notin corp_codes
             THEN [table |-> table, rowcount |-> 0, error |-> TRUE]
             ELSE LET rest == InsertKeyEventsPlain(table \cup { r }, Tail(recs), corp_codes)
                  IN  [table |-> rest.table, rowcount |-> rest.rowcount + 1,
                       error |-> rest.error]

\* INSERT INTO key_events VALUES (recs) ON CONFLICT (rcept_no) DO NOTHING, with
\* the foreign key corp_code -> companies: a row whose receipt number is stored
\* (or came earlier in the statement) is dropped; a row to insert whose company
\* is not in the roster fails the statement
RECURSIVE InsertKeyEvents(_, _, _)
InsertKeyEvents(table, recs, corp_codes) ==
    IF recs = << >> THEN [table |-> table, rowcount |-> 0, error |-> FALSE]
    ELSE LET r == Head(recs)
             conflict == \E x \in table : x.rcept_no = r.rcept_no
         IN  IF conflict THEN InsertKeyEvents(table, Tail(recs), corp_codes)
             ELSE IF r.corp_code \notin corp_codes
             THEN [table |-> table, rowcount |-> 0, error |-> TRUE]
             ELSE LET rest == InsertKeyEvents(table \cup { r }, Tail(recs), corp_codes)
                  IN  [table |-> rest.table, rowcount |-> rest.rowcount + 1,
                       error |-> rest.error]

\* the statement is one transaction: nothing of a failed statement is stored
ExecuteInsertKeyEvents(table, recs) ==
    LET res == InsertKeyEvents(table, recs, { r.corp_code : r \in Roster })
    IN  IF res.error THEN [table |-> table, rowcount |-> 0, error |-> TRUE] ELSE res

\* fetch_all_events line 148: the default kinds, "" for all types
EVENT_KINDS == << "B", "" >>

Chars_20240115 == << "2", "0", "2", "4", "0", "1", "1", "5" >>
Chars_20240230 == << "2", "0", "2", "4", "0", "2", "3", "0" >>

\* an event of company 1, a row without receipt number, a row whose date is
\* no date
FrameE1 ==
    << [rcept_no |-> "r1", corp_code |-> 1, report_nm |-> << "M" >>,
        rcept_dt |-> Str(Chars_20240115)],
       [corp_code |-> 1, report_nm |-> << "N" >>, rcept_dt |-> Str(Chars_20240115)],
       [rcept_no |-> "r9", corp_code |-> 1, report_nm |-> << "N" >>,
        rcept_dt |-> Str(Chars_20240230)] >>

\* the receipt r1 again with another title, and an event of company 2
FrameE2 ==
    << [rcept_no |-> "r1", corp_code |-> 1, report_nm |-> << "M", "2" >>,
        rcept_dt |-> Str(Chars_20240115)],
       [rcept_no |-> "r2", corp_code |-> 2, report_nm |-> << "P" >>,
        rcept_dt |-> Str(Chars_20240115)] >>

\* the receipt r1 and an event of a company that is not in the roster
FrameE3 ==
    << [rcept_no |-> "r1", corp_code |-> 1, report_nm |-> << "M" >>,
        rcept_dt |-> Str(Chars_20240115)],
       [rcept_no |-> "r3", corp_code |-> 0, report_nm |-> << "Q" >>,
        rcept_dt |-> Str(Chars_20240115)] >>

EventAnswers ==
    { Answer("none", << >>, ""), Answer("frame", << >>, ""),
      Answer("frame", FrameE1, ""), Answer("frame", FrameE2, ""),
      Answer("frame", FrameE3, ""), Answer("status", << >>, RATE_LIMIT),
      Answer("raise", << >>, "") }

\* DartClient.list with _check_error
client_list(answer) ==
    IF answer.kind = "none" THEN [kind |-> "df", rows |-> << >>, code |-> ""]
    ELSE IF answer.kind = "status" /\ answer.status # "000"
         THEN [kind |-> "dart_error", rows |-> << >>, code |-> answer.status]
    ELSE IF answer.kind = "raise" THEN [kind |-> "exception", rows |-> << >>, code |-> ""]
    ELSE [kind |-> "df", rows |-> answer.rows, code |-> ""]

\* cli.py defaults of the backfill options
DefaultConfig == Config("skip", "prompt", FALSE)

InitEvents ==
    /\ BackfillIdle
    /\ cfg = DefaultConfig
    /\ remote = NoRemote
    /\ EventsIdle
    /\ NotesIdle
    /\ JobIdle
    /\ RestIdle

\* cli.py sync_events_command, events.py lines 146-154
StartSync ==
    /\ ev_pc = "idle"
    /\ ev_pc' = "list"
    /\ ev_kind' = 1
    /\ ev_stats' = ZeroEventStats
    /\ ev_records' = << >>
    /\ ev_rowcount' = 0
    /\ UNCHANGED << key_events, backfill_vars, notes_vars, job_vars, rest_vars >>

\* events.py lines 156-170 and 184-187: the call for the kind at hand
ListEvents(answer) ==
    /\ ev_pc = "list"
    /\ ev_kind <= Len(EVENT_KINDS)
    /\ LET out == client_list(answer)
           recs == transform_events_data(out.rows)
       IN  IF out.kind = "df"
           THEN IF out.rows = << >> \/ recs = << >>
                THEN /\ ev_kind' = ev_kind + 1
                     /\ ev_records' = << >>
                     /\ UNCHANGED << ev_pc, ev_stats >>
                ELSE /\ ev_records' = recs
                     /\ ev_pc' = "insert"
                     /\ UNCHANGED << ev_kind, ev_stats >>
           ELSE /\ ev_stats' = [ev_stats EXCEPT !.errors = @ + 1]
                /\ ev_kind' = ev_kind + 1
                /\ ev_records' = << >>
                /\ UNCHANGED ev_pc
    /\ ev_rowcount' = 0
    /\ UNCHANGED << key_events, backfill_vars, notes_vars, job_vars, rest_vars >>

\* events.py lines 172-182 (and 184-187 when the statement fails)
InsertEvents ==
    /\ ev_pc = "insert"
    /\ LET res == ExecuteInsertKeyEvents(key_events, ev_records)
           inserted == Inserted(res.rowcount, ev_records)
       IN  /\ key_events' = res.table
           /\ ev_rowcount' = res.rowcount
           /\ ev_stats' = IF res.error
                          THEN [ev_stats EXCEPT !.errors = @ + 1]
                          ELSE [ev_stats EXCEPT !.total_records = @ + inserted,
                                                !.successful = @ + 1]
    /\ ev_kind' = ev_kind + 1
    /\ ev_pc' = "list"
    /\ UNCHANGED << ev_records, backfill_vars, notes_vars, job_vars, rest_vars >>

\* events.py lines 184-187: the store is not reachable, execute or commit raises
InsertEventsFault ==
    /\ ev_pc = "insert"
    /\ ev_stats' = [ev_stats EXCEPT !.errors = @ + 1]
    /\ ev_kind' = ev_kind + 1
    /\ ev_pc' = "list"
    /\ ev_records' = << >>
    /\ UNCHANGED << key_events, ev_rowcount, backfill_vars, notes_vars, job_vars, rest_vars >>

\* events.py line 189 and cli.py line 328: the stats are returned and printed
FinishSync ==
    /\ ev_pc = "list"
    /\ ev_kind > Len(EVENT_KINDS)
    /\ ev_pc' = "idle"
    /\ UNCHANGED << key_events, ev_kind, ev_stats, ev_records, ev_rowcount,
                    backfill_vars, notes_vars, job_vars, rest_vars >>

NextEvents ==
    \/ StartSync
    \/ \E answer \in EventAnswers : ListEvents(answer)
    \/ InsertEvents
    \/ InsertEventsFault
    \/ FinishSync

SpecEvents == InitEvents /\ [][NextEvents]_vars

(***************************************************************************)
(* The note ingestion: etl/xbrl.py (_extract_text_blocks, ingest_xbrl) on  *)
(* the table financial_notes.  A receipt number is a sequence of           *)
(* one-character strings, a filing date the number its eight digits spell  *)
(* (texts of one length sort as their numbers do).  The surrogate key id   *)
(* of a row is left out.                                                   *)
(***************************************************************************)
\* the names of the fact types that contain "textBlock"
TextBlockTypes == { "textBlockItemType", "nonnum:textBlockItemType" }

\* xbrl.py lines 110-120: the record of one fact; an absent value, label or
\* context is ""
TextBlockOf(fact) ==
    [concept_id |-> fact.concept,
     title |-> IF fact.label = "" THEN fact.concept ELSE fact.label,
     content |-> fact.value,
     context_ref |-> fact.contextID]

\* blocks_by_concept[concept_id] = record, the dict keeping insertion order
PutBlock(blocks, b) ==
    IF \E i \in DOMAIN blocks : blocks[i].concept_id = b.concept_id
    THEN [ i \in DOMAIN blocks |-> IF blocks[i].concept_id = b.concept_id THEN b ELSE blocks[i] ]
    ELSE Append(blocks, b)

\* xbrl.py lines 99-126, from the facts not yet read and the blocks so far
RECURSIVE ExtractInto(_, _)
ExtractInto(facts, blocks) ==
    IF facts = << >> THEN blocks
    ELSE LET fact == Head(facts)
             b == TextBlockOf(fact)
             held == { i \in DOMAIN blocks : blocks[i].concept_id = b.concept_id }
         IN  IF fact.concept = "" \/ fact.type = "" \/ fact.type \notin TextBlockTypes
             THEN ExtractInto(Tail(facts), blocks)
             ELSE IF held = { } \/ ((\A i \in held : blocks[i].content = "") /\ b.content # "")
             THEN ExtractInto(Tail(facts), PutBlock(blocks, b))
             ELSE ExtractInto(Tail(facts), blocks)

extract_text_blocks(facts) == ExtractInto(facts, << >>)

\* models.py unique_financial_note, the index_elements of the upsert
NoteKey(r) == << r.corp_code, r.rcept_no, r.concept_id >>

\* xbrl.py lines 237-252
NoteRecords(call, blocks, now) ==
    [ i \in DOMAIN blocks |->
        [corp_code |-> call.corp_code, rcept_no |-> call.rcept_no, year |-> call.year,
         report_code |-> call.report_code, fetched_at |-> now,
         concept_id |-> blocks[i].concept_id, title |-> blocks[i].title,
         content |-> blocks[i].content, context_ref |-> blocks[i].context_ref] ]

\* the insert with ON CONFLICT DO NOTHING: a stored note is kept as it is
RECURSIVE UpsertNotes_KeepOld(_, _)
UpsertNotes_KeepOld(table, recs) ==
    IF recs = << >> THEN [table |-> table, rowcount |-> 0]
    ELSE LET r == Head(recs)
             conflict == \E x \in table : << x.corp_code, x.rcept_no, x.concept_id >> =
                                          << r.corp_code, r.rcept_no, r.concept_id >>
             rest == UpsertNotes_KeepOld(IF conflict THEN table ELSE table \cup { r }, Tail(recs))
         IN  [table |-> rest.table, rowcount |-> rest.rowcount + (IF conflict THEN 0 ELSE 1)]

\* INSERT ... ON CONFLICT (corp_code, rcept_no, concept_id) DO UPDATE SET title,
\* content, context_ref, year, report_code, fetched_at (xbrl.py 257-270)
RECURSIVE UpsertNotes(_, _)
UpsertNotes(table, recs) ==
    IF recs = << >> THEN [table |-> table, rowcount |-> 0]
    ELSE LET r == Head(recs)
             rest == UpsertNotes({ x \in table : NoteKey(x) # NoteKey(r) } \cup { r }, Tail(recs))
         IN  [table |-> rest.table, rowcount |-> rest.rowcount + 1]

\* the rows of the disclosure list whose report code is the one asked for
RECURSIVE Matching(_, _, _)
Matching(df, column, report_code) ==
    IF df = << >> THEN << >>
    ELSE (IF Head(df)[column] = report_code THEN << Head(df) >> ELSE << >>)
         \o Matching(Tail(df), column, report_code)

\* xbrl.py lines 171-191: the rows that may come first; the sort of line 188
\* is not stable, so rows of the latest date come in any order
FirstRows(df, report_code) ==
    LET columns == DOMAIN df[1]
        column == IF "reprt_code" \in columns THEN "reprt_code"
                  ELSE IF "report_code" \in columns THEN "report_code" ELSE ""
        matching == IF column = "" THEN << >> ELSE Matching(df, column, report_code)
    IN  IF matching = << >> THEN { }
        ELSE IF "rcept_dt" \in columns
        THEN { matching[i] : i \in { j \in DOMAIN matching :
                                       \A k \in DOMAIN matching :
                                          matching[k].rcept_dt <= matching[j].rcept_dt } }
        ELSE { matching[1] }

Chars_n1 == << "n", "1" >>
Chars_n2 == << "n", "2" >>
Chars_n1_padded == << " ", "n", "1", " " >>

\* two annual reports and a quarterly one
NoteListA ==
    << [reprt_code |-> "11011", rcept_no |-> Chars_n1, rcept_dt |-> 20240115],
       [reprt_code |-> "11013", rcept_no |-> Chars_n2, rcept_dt |-> 20240520],
       [reprt_code |-> "11011", rcept_no |-> Chars_n2, rcept_dt |-> 20240301] >>

\* the annual report n1 alone, its receipt number padded with blanks
NoteListB ==
    << [reprt_code |-> "11011", rcept_no |-> Chars_n1_padded, rcept_dt |-> 20240115] >>

\* a list without a report code column, and one with a blank receipt number
NoteListC == << [rcept_no |-> Chars_n1, rcept_dt |-> 20240115] >>
NoteListD == << [reprt_code |-> "11011", rcept_no |-> << " " >>, rcept_dt |-> 20240115] >>

NoteListAnswers ==
    { Answer("none", << >>, ""), Answer("frame", NoteListA, ""),
      Answer("frame", NoteListB, ""), Answer("frame", NoteListC, ""),
      Answer("frame", NoteListD, ""), Answer("status", << >>, NO_DATA),
      Answer("status", << >>, RATE_LIMIT), Answer("raise", << >>, "") }

Fact(concept, type, value, label, contextID) ==
    [concept |-> concept, type |-> type, value |-> value, label |-> label,
     contextID |-> contextID]

\* the facts of an instance: c1, a fact that is no text block, c2 first empty
\* then filled, c1 a second time, a fact without concept
FactsA ==
    << Fact("c1", "textBlockItemType", "x", "T1", "k1"),
       Fact("m1", "monetaryItemType", "5", "M1", "k1"),
       Fact("c2", "nonnum:textBlockItemType", "", "", "k1"),
       Fact("c2", "nonnum:textBlockItemType", "y", "", ""),
       Fact("c1", "textBlockItemType", "z", "T1z", "k2"),
       Fact("", "", "w", "", "k1") >>

\* c1 with another title, content and context
FactsB == << Fact("c1", "textBlockItemType", "w", "T1b", "k2") >>

FactsNone == << Fact("m1", "monetaryItemType", "5", "M1", "k1") >>

\* what the download and the load of the instance give: an error of the
\* remote, an exception, a package without instance file, an instance that
\* does not load, or the facts of the instance.  api.py defines no
\* download_xbrl on DartClient; the outcomes are those of the extraction of
\* text sections from a filing document, of which the exception is the one
\* the call of xbrl.py line 199 gives with api.py as it is.
XbrlOutcomes ==
    { [kind |-> "dart_error", code |-> NO_DATA, facts |-> << >>],
      [kind |-> "dart_error", code |-> RATE_LIMIT, facts |-> << >>],
      [kind |-> "exception", code |-> "", facts |-> << >>],
      [kind |-> "no_instance", code |-> "", facts |-> << >>],
      [kind |-> "not_loaded", code |-> "", facts |-> << >>],
      [kind |-> "facts", code |-> "", facts |-> FactsA],
      [kind |-> "facts", code |-> "", facts |-> FactsB],
      [kind |-> "facts", code |-> "", facts |-> FactsNone] }

\* the report codes the command is run with
NoteReportCodes == { "11011", "11013" }

InitNotes ==
    /\ BackfillIdle
    /\ cfg = DefaultConfig
    /\ remote = NoRemote
    /\ EventsIdle
    /\ NotesIdle
    /\ JobIdle
    /\ RestIdle

\* xbrl.py lines 129-140: the command is run for a company, the current year
\* and a report code; the company may be missing from the roster (code 0)
StartIngest(corp_code, report_code) ==
    /\ note_pc = "idle"
    /\ note_pc' = "list"
    /\ note_call' = [corp_code |-> corp_code, year |-> CurrentYear,
                     report_code |-> report_code, rcept_no |-> << >>]
    /\ note_stats' = ZeroNoteStats
    /\ note_blocks' = << >>
    /\ UNCHANGED << financial_notes, note_now, backfill_vars, events_vars, job_vars, rest_vars >>

\* ingest_xbrl returns stats, with `errors` more errors
ReturnNoteStats(errors) ==
    /\ note_pc' = "idle"
    /\ note_stats' = [note_stats EXCEPT !.errors = @ + errors]

\* xbrl.py lines 142-194: the disclosure list and the choice of the receipt
ListDisclosures(answer) ==
    /\ note_pc = "list"
    /\ LET out == client_list(answer)
       IN  IF out.kind = "dart_error"
           THEN ReturnNoteStats(IF out.code = NO_DATA THEN 0 ELSE 1) /\ UNCHANGED note_call
           ELSE IF out.kind = "exception"
           THEN ReturnNoteStats(1) /\ UNCHANGED note_call
           ELSE IF out.rows = << >> \/ FirstRows(out.rows, note_call.report_code) = { }
           THEN ReturnNoteStats(0) /\ UNCHANGED note_call
           ELSE \E first_row \in FirstRows(out.rows, note_call.report_code) :
                   LET rcept_no == Strip(first_row.rcept_no)
                   IN  IF rcept_no = << >>
                       THEN ReturnNoteStats(0) /\ UNCHANGED note_call
                       ELSE /\ note_call' = [note_call EXCEPT !.rcept_no = rcept_no]
                            /\ note_pc' = "download"
                            /\ UNCHANGED note_stats
    /\ UNCHANGED << financial_notes, note_blocks, note_now, backfill_vars, events_vars, job_vars, rest_vars >>

\* xbrl.py lines 196-253: download, load, extraction and the records; the
\* clock is read at line 237
DownloadXbrl(outcome) ==
    /\ note_pc = "download"
    /\ IF outcome.kind = "dart_error"
       THEN /\ ReturnNoteStats(IF outcome.code = NO_DATA THEN 0 ELSE 1)
            /\ UNCHANGED << note_blocks, note_now >>
       ELSE IF outcome.kind \in { "exception", "not_loaded" }
       THEN ReturnNoteStats(1) /\ UNCHANGED << note_blocks, note_now >>
       ELSE IF outcome.kind = "no_instance" \/ extract_text_blocks(outcome.facts) = << >>
       THEN ReturnNoteStats(0) /\ UNCHANGED << note_blocks, note_now >>
       ELSE /\ note_now < MaxIngests
            /\ note_now' = note_now + 1
            /\ note_blocks' = extract_text_blocks(outcome.facts)
            /\ note_stats' = [note_stats EXCEPT
                                !.total_notes = Len(extract_text_blocks(outcome.facts))]
            /\ note_pc' = "upsert"
    /\ UNCHANGED << financial_notes, note_call, backfill_vars, events_vars, job_vars, rest_vars >>

\* xbrl.py lines 255-279: the upsert commits; a company that is not in the
\* roster violates the foreign key and the statement fails (273-276)
UpsertNoteRecords ==
    /\ note_pc = "upsert"
    /\ LET recs == NoteRecords(note_call, note_blocks, note_now)
           res == UpsertNotes(financial_notes, recs)
       IN  IF note_call.corp_code \in { r.corp_code : r \in Roster }
           THEN /\ financial_notes' = res.table
                /\ note_stats' = [note_stats EXCEPT !.successful = res.rowcount]
           ELSE /\ financial_notes' = financial_notes
                /\ note_stats' = [note_stats EXCEPT !.errors = @ + 1]
    /\ note_pc' = "idle"
    /\ UNCHANGED << note_call, note_blocks, note_now, backfill_vars, events_vars, job_vars, rest_vars >>

\* xbrl.py lines 273-276: the store is not reachable
UpsertNoteRecordsFault ==
    /\ note_pc = "upsert"
    /\ ReturnNoteStats(1)
    /\ UNCHANGED << financial_notes, note_call, note_blocks, note_now, backfill_vars,
                    events_vars, job_vars, rest_vars >>

NextNotes ==
    \/ \E corp_code \in { r.corp_code : r \in Roster } \cup { 0 } :
          \E report_code \in NoteReportCodes : StartIngest(corp_code, report_code)
    \/ \E answer \in NoteListAnswers : ListDisclosures(answer)
    \/ \E outcome \in XbrlOutcomes : DownloadXbrl(outcome)
    \/ UpsertNoteRecords
    \/ UpsertNoteRecordsFault

SpecNotes == InitNotes /\ [][NextNotes]_vars

(***************************************************************************)
(* The monthly sync: scheduler.py monthly_sync_job with                    *)
(* notifications.py.  backfill_company for one company and                 *)
(* sync_recent_events are taken as one step each; the job is the only      *)
(* writer while it runs.                                                   *)
(***************************************************************************)
\* what the job is not running changes: the backfill command and the event
\* command are idle
backfill_locals == << pc, cfg, companies, company_idx, unit_idx, stats, aggregate, records,
                      rowcount, status, last_answer, exit_state, run_calls, called,
                      run_written, tallied, retry_of, n_calls, n_faults, remote >>

events_locals == << ev_pc, ev_kind, ev_stats, ev_records, ev_rowcount >>

\* the year before the current one
SyncStartYear_LastYear == CurrentYear - 1

\* scheduler.py lines 54 and 65: start_year=current_year
SyncStartYear == CurrentYear

\* the loops "for year in years: for report_code in report_codes" of
\* backfill_company, for any list of years
UnitOf(years, k) ==
    [ year |-> years[((k - 1) \div Len(get_report_codes)) + 1],
      report_code |-> get_report_codes[((k - 1) % Len(get_report_codes)) + 1] ]

\* the answers of the remote to the calls for one company: `answer` to every
\* unit but the one at limit_at, which meets the rate limit
Script(answer, limit_at) == [answer |-> answer, limit_at |-> limit_at]

AnswerAt(script, k) == IF k = script.limit_at THEN RateLimitError ELSE script.answer

JobScripts ==
    { Script(a, p) :
        a \in { Answer("frame", FrameA, ""), Answer("status", << >>, NO_DATA),
                Answer("status", << >>, DATA_NOT_EXIST) },
        p \in 0 .. 2 }

\* a remote call that gave no answer to use: an exception or an error status
\* other than "no data"
CallFailed(out) ==
    out.kind = "exception" \/ (out.kind = "dart_error" /\ out.code # NO_DATA)

NewRun(store) ==
    [store |-> store, stats |-> ZeroStats, fetched |-> { }, calls |-> 0, calls_failed |-> 0,
     raised |-> FALSE]

\* financials.py backfill_company (lines 193-263) from unit k on, with
\* fetch_company_financials; _record_progress raises at the unit fault_at
RECURSIVE backfill_company(_, _, _, _, _, _, _)
backfill_company(run, corp_code, years, k, script, fault_at, on_error_013) ==
    IF k > Len(years) * Len(get_report_codes) THEN run
    ELSE LET u == UnitOf(years, k)
         IN  IF IsDone(run.store.progress, corp_code, u.year, u.report_code)
             THEN backfill_company(run, corp_code, years, k + 1, script, fault_at, on_error_013)
             ELSE LET out == finstate_all(AnswerAt(script, k))
                      recs == transform_financial_data(out.rows, corp_code, u.year, u.report_code)
                      res == InsertOnConflictDoNothing(run.store.fundamentals, recs)
                      has == HasRows(out, recs)
                      n == IF has THEN Inserted(res.rowcount, recs) ELSE 0
                      s == IF has THEN "success" ELSE FetchStatus(out, on_error_013)
                      ck == Checkpoint(s)
                      fetched ==
                          [run EXCEPT
                             !.stats = Tally(@, n, s),
                             !.store.fundamentals = IF has THEN res.table ELSE @,
                             !.fetched = @ \cup { << corp_code, u.year, u.report_code >> },
                             !.calls = @ + 1,
                             !.calls_failed = @ + (IF CallFailed(out) THEN 1 ELSE 0)]
                      recorded ==
                          [fetched EXCEPT
                             !.store.progress = record_progress(@, corp_code, u.year, u.report_code,
                                                                ck.status, ck.error_message)]
                  IN  IF k = fault_at THEN [fetched EXCEPT !.raised = TRUE]
                      ELSE IF ReturnsAfterRecord(s) THEN recorded
                      ELSE backfill_company(recorded, corp_code, years, k + 1, script, fault_at,
                                            on_error_013)

\* events.py fetch_all_events (lines 146-189) for the kinds from place i on;
\* when rollback_fails, the rollback of line 187 raises
RECURSIVE fetch_all_events(_, _, _, _)
fetch_all_events(run, answers, i, rollback_fails) ==
    IF i > Len(EVENT_KINDS) THEN run
    ELSE LET out == client_list(answers[i])
             recs == transform_events_data(out.rows)
             res == ExecuteInsertKeyEvents(run.table, recs)
             called1 == [run EXCEPT !.calls = @ + 1,
                                    !.calls_failed = @ + (IF CallFailed(out) THEN 1 ELSE 0)]
         IN  IF out.kind = "df" /\ (out.rows = << >> \/ recs = << >>)
             THEN fetch_all_events(called1, answers, i + 1, rollback_fails)
             ELSE IF out.kind = "df" /\ ~res.error
             THEN fetch_all_events(
                      [called1 EXCEPT !.table = res.table,
                                      !.stats.total_records = @ + Inserted(res.rowcount, recs),
                                      !.stats.successful = @ + 1],
                      answers, i + 1, rollback_fails)
             ELSE IF rollback_fails
             THEN [called1 EXCEPT !.stats.errors = @ + 1, !.raised = TRUE]
             ELSE fetch_all_events([called1 EXCEPT !.stats.errors = @ + 1], answers, i + 1,
                                   rollback_fails)

\* events.py lines 192-215
sync_recent_events(table, answers, rollback_fails) ==
    fetch_all_events([table |-> table, stats |-> ZeroEventStats, calls |-> 0,
                      calls_failed |-> 0, raised |-> FALSE],
                     answers, 1, rollback_fails)

\* the answers of the remote to the two list calls of a sync
JobEventAnswers ==
    { << Answer("frame", FrameE1, ""), Answer("frame", FrameE2, "") >>,
      << Answer("frame", << >>, ""), Answer("status", << >>, RATE_LIMIT) >>,
      << Answer("status", << >>, DATA_NOT_EXIST), Answer("raise", << >>, "") >> }

\* the environment of the notifier: the text of SMTP_PORT, whether host, user,
\* password and recipient are all set, and whether the SMTP server takes the
\* message
Chars_587 == << "5", "8", "7" >>
Chars_smtp == << "s", "m", "t", "p" >>

NotifierEnvs ==
    [port : { Chars_587, << >>, Chars_smtp }, complete : BOOLEAN, smtp_ok : BOOLEAN]

\* notifications.py lines 39-71: int() of line 42 is outside the try block
send_email_notification(env) ==
    IF IntOfText(Strip(env.port)) = None THEN "ValueError"
    ELSE IF ~env.complete THEN "skipped"
    ELSE IF env.smtp_ok THEN "sent" ELSE "failed"

\* the options the job is run with (cli.py run_sync_command, scheduler default)
JobConfigs == { Config("skip", "exit", FALSE), Config("stop", "exit", FALSE) }

InitJob ==
    /\ BackfillIdle
    /\ cfg \in JobConfigs
    /\ remote = NoRemote
    /\ EventsIdle
    /\ NotesIdle
    /\ JobIdle
    /\ RestIdle

JobCompanies == get_companies_for_backfill(FALSE)

\* scheduler.py lines 41-59: the job starts and reads the roster; when the
\* store is not reachable the query raises to line 91
StartJob(store_fails) ==
    /\ job_pc = "idle"
    /\ job_out = "none"
    /\ job_stats' = ZeroJobStats
    /\ job_hist' = NoJobHist
    /\ job_idx' = 1
    /\ job_pc' = IF store_fails THEN "failed" ELSE "loop"
    /\ UNCHANGED << last_updated, job_out, job_clock, fundamentals, progress, key_events,
                    backfill_locals, events_locals, notes_vars, rest_vars >>

\* scheduler.py lines 59-81: one company of the loop
SyncCompany(script, fault_at) ==
    /\ job_pc = "loop"
    /\ job_idx <= Len(JobCompanies)
    /\ LET corp_code == JobCompanies[job_idx]
           result == backfill_company(
                         NewRun([fundamentals |-> fundamentals, progress |-> progress]),
                         corp_code, get_years_to_backfill(SyncStartYear), 1, script, fault_at,
                         cfg.on_error_013)
           hist == [job_hist EXCEPT
                      !.fetched = @ \cup result.fetched,
                      !.unit_failed = @ \/ result.raised \/ result.stats.errors > 0,
                      !.calls = @ + result.calls,
                      !.calls_failed = @ + result.calls_failed]
       IN  /\ fundamentals' = result.store.fundamentals
           /\ progress' = result.store.progress
           /\ job_hist' = hist
           /\ IF result.raised
              THEN /\ job_stats' = [job_stats EXCEPT !.financials_errors = @ + 1]
                   /\ job_idx' = job_idx + 1
                   /\ UNCHANGED << last_updated, job_clock, job_pc >>
              ELSE /\ job_stats' = [job_stats EXCEPT
                                      !.financials_records = @ + result.stats.total_records,
                                      !.financials_companies = @ + 1]
                   /\ job_clock' = job_clock + 1
                   /\ last_updated' = [last_updated EXCEPT ![corp_code] = job_clock + 1]
                   /\ IF result.stats.rate_limited
                      THEN job_pc' = "events" /\ job_idx' = job_idx
                      ELSE job_pc' = "loop" /\ job_idx' = job_idx + 1
    /\ UNCHANGED << job_out, key_events, backfill_locals, events_locals, notes_vars, rest_vars >>

\* scheduler.py line 59: the roster is exhausted
LeaveLoop ==
    /\ job_pc = "loop"
    /\ job_idx > Len(JobCompanies)
    /\ job_pc' = "events"
    /\ UNCHANGED << last_updated, job_idx, job_stats, job_out, job_hist, job_clock,
                    fundamentals, progress, key_events, backfill_locals, events_locals,
                    notes_vars, rest_vars >>

\* scheduler.py lines 84-89
SyncEvents(answers, rollback_fails) ==
    /\ job_pc = "events"
    /\ LET events_result == sync_recent_events(key_events, answers, rollback_fails)
       IN  /\ key_events' = events_result.table
           /\ job_stats' = IF events_result.raised
                           THEN [job_stats EXCEPT !.events_errors = @ + 1]
                           ELSE [job_stats EXCEPT
                                   !.events_records = events_result.stats.total_records]
           /\ job_hist' = [job_hist EXCEPT
                             !.event_runs = @ + 1,
                             !.event_failed = events_result.raised
                                              \/ events_result.stats.errors > 0,
                             !.calls = @ + events_result.calls,
                             !.calls_failed = @ + events_result.calls_failed]
    /\ job_pc' = "commit"
    /\ UNCHANGED << last_updated, job_idx, job_out, job_clock, fundamentals, progress,
                    backfill_locals, events_locals, notes_vars, rest_vars >>

\* db.py lines 52-58 at the end of the with block of scheduler.py line 57:
\* the commit, or the rollback and the exception to line 91
CommitJob(store_fails) ==
    /\ job_pc = "commit"
    /\ job_pc' = IF store_fails THEN "failed" ELSE "notify"
    /\ UNCHANGED << last_updated, job_idx, job_stats, job_out, job_hist, job_clock,
                    fundamentals, progress, key_events, backfill_locals, events_locals,
                    notes_vars, rest_vars >>

\* scheduler.py lines 96-102 with notify_sync_complete (notifications.py 140-164)
NotifyComplete(env) ==
    /\ job_pc = "notify"
    /\ job_out' = IF send_email_notification(env) = "ValueError" THEN "raised_notifier"
                  ELSE "returned"
    /\ job_pc' = "done"
    /\ UNCHANGED << last_updated, job_idx, job_stats, job_hist, job_clock, fundamentals,
                    progress, key_events, backfill_locals, events_locals, notes_vars, rest_vars >>

\* scheduler.py lines 91-94 with notify_job_failure (notifications.py 74-105)
NotifyFailure(env) ==
    /\ job_pc = "failed"
    /\ job_out' = IF send_email_notification(env) = "ValueError" THEN "raised_notifier"
                  ELSE "raised_original"
    /\ job_pc' = "done"
    /\ UNCHANGED << last_updated, job_idx, job_stats, job_hist, job_clock, fundamentals,
                    progress, key_events, backfill_locals, events_locals, notes_vars, rest_vars >>

NextJob ==
    \/ \E store_fails \in BOOLEAN : StartJob(store_fails)
    \/ \E script \in JobScripts : \E fault_at \in 0 .. 1 : SyncCompany(script, fault_at)
    \/ LeaveLoop
    \/ \E answers \in JobEventAnswers : \E rollback_fails \in BOOLEAN :
          SyncEvents(answers, rollback_fails)
    \/ \E store_fails \in BOOLEAN : CommitJob(store_fails)
    \/ \E env \in NotifierEnvs : NotifyComplete(env)
    \/ \E env \in NotifierEnvs : NotifyFailure(env)

SpecJob == InitJob /\ [][NextJob]_vars

(***************************************************************************)
(* The throttle of the client, api.py lines 55-61, with time in ticks.     *)
(* A caller is in one operation of the client at a time; the steps of two  *)
(* callers interleave, since the client holds no lock.                     *)
(***************************************************************************)
\* the operations that pass the throttle: api.py lines 110, 154, 188, 213
ThrottledOps == { "finstate_all", "list", "company", "corp_codes" }

\* api.py line 59 with no time left to sleep
sleep_time_None(elapsed) == 0

\* api.py line 59
sleep_time(elapsed) == request_delay - elapsed

other_frame == << backfill_vars, events_vars, notes_vars, job_vars >>

InitThrottle ==
    /\ BackfillIdle
    /\ cfg \in Configs
    /\ remote = NoRemote
    /\ EventsIdle
    /\ NotesIdle
    /\ JobIdle
    /\ RestIdle

\* time passes, also while a caller sleeps or is between two steps
Tick ==
    /\ clock < Epoch + MaxTicks
    /\ clock' = clock + 1
    /\ UNCHANGED << last_request_time, th_pc, th_op, wake_at, released, waited,
                    helper_vars, late_vars, other_frame >>

\* api.py lines 110, 154, 188, 213: an operation enters _wait_for_rate_limit
Invoke(t, op) ==
    /\ th_pc[t] = "idle"
    /\ Len(released) < MaxReleases
    /\ th_pc' = [th_pc EXCEPT ![t] = "wait"]
    /\ th_op' = [th_op EXCEPT ![t] = op]
    /\ wake_at' = [wake_at EXCEPT ![t] = 0]
    /\ UNCHANGED << clock, last_request_time, released, waited, helper_vars, late_vars, other_frame >>

\* api.py lines 57-60: read the clock and the stamp, start to sleep if needed
ReadElapsed(t) ==
    /\ th_pc[t] = "wait"
    /\ LET elapsed == clock - last_request_time
       IN  IF elapsed < request_delay
           THEN /\ th_pc' = [th_pc EXCEPT ![t] = "sleep"]
                /\ wake_at' = [wake_at EXCEPT ![t] = clock + sleep_time(elapsed)]
           ELSE /\ th_pc' = [th_pc EXCEPT ![t] = "stamp"]
                /\ UNCHANGED wake_at
    /\ UNCHANGED << clock, last_request_time, th_op, released, waited, helper_vars,
                    late_vars, other_frame >>

\* api.py line 60: time.sleep returns, not before the time asked for
Wake(t) ==
    /\ th_pc[t] = "sleep"
    /\ clock >= wake_at[t]
    /\ th_pc' = [th_pc EXCEPT ![t] = "stamp"]
    /\ UNCHANGED << clock, last_request_time, th_op, wake_at, released, waited,
                    helper_vars, late_vars, other_frame >>

\* api.py line 61: stamp the time and return; the call is released
Stamp(t) ==
    /\ th_pc[t] = "stamp"
    /\ last_request_time' = clock
    /\ released' = Append(released, clock)
    /\ waited' = Append(waited, wake_at[t] # 0)
    /\ th_pc' = [th_pc EXCEPT ![t] = "call"]
    /\ UNCHANGED << clock, th_op, wake_at, helper_vars, late_vars, other_frame >>

\* api.py lines 112-132, 156-177, 190-205, 215-227: the remote call ends
CallEnds(t) ==
    /\ th_pc[t] = "call"
    /\ th_pc' = [th_pc EXCEPT ![t] = "idle"]
    /\ th_op' = [th_op EXCEPT ![t] = "none"]
    /\ UNCHANGED << clock, last_request_time, wake_at, released, waited, helper_vars,
                    late_vars, other_frame >>

\* one caller, one operation after the other
NextSequential ==
    \/ Tick
    \/ \E op \in ThrottledOps : Invoke(1, op)
    \/ ReadElapsed(1)
    \/ Wake(1)
    \/ Stamp(1)
    \/ CallEnds(1)

SpecSequential == InitThrottle /\ [][NextSequential]_vars

\* several callers on one client
NextThrottle ==
    \/ Tick
    \/ \E t \in Callers, op \in ThrottledOps : Invoke(t, op)
    \/ \E t \in Callers : ReadElapsed(t)
    \/ \E t \in Callers : Wake(t)
    \/ \E t \in Callers : Stamp(t)
    \/ \E t \in Callers : CallEnds(t)

SpecThrottle == InitThrottle /\ [][NextThrottle]_vars

(***************************************************************************)
(* The helpers parse_amount (financials.py lines 26-47) and                *)
(* _normalize_code (companies.py lines 64-81), called on one raw value.    *)
(***************************************************************************)
DigitChar(d) ==
    CASE d = 0 -> "0" [] d = 1 -> "1" [] d = 2 -> "2" [] d = 3 -> "3" [] d = 4 -> "4"
      [] d = 5 -> "5" [] d = 6 -> "6" [] d = 7 -> "7" [] d = 8 -> "8" [] d = 9 -> "9"

\* str() of a natural number
RECURSIVE NatChars(_)
NatChars(n) == IF n < 10 THEN << DigitChar(n) >> ELSE NatChars(n \div 10) \o << DigitChar(n % 10) >>

\* str() of an integer
IntChars(n) == IF n < 0 THEN << "-" >> \o NatChars(0 - n) ELSE NatChars(n)

\* companies.py line 69: str(value) of a value that is not None
StrOf(value) ==
    CASE value.kind = "str" -> value.chars
      [] value.kind = "num" -> IntChars(value.num)
      [] value.kind = "float" ->
            (IF value.tenths < 0 THEN << "-" >> ELSE << >>)
            \o NatChars(TruncTenths(IF value.tenths < 0 THEN 0 - value.tenths ELSE value.tenths))
            \o << "." >>
            \o NatChars((IF value.tenths < 0 THEN 0 - value.tenths ELSE value.tenths) % 10)
      [] value.kind = "inf" -> (IF value.sign < 0 THEN << "-" >> ELSE << >>) \o << "i", "n", "f" >>
      [] value.kind = "nan" -> << "n", "a", "n" >>

\* str.isdigit
isdigit(text) == text # << >> /\ AllDigits(text)

\* str.endswith(".0")
EndsWithPointZero(text) ==
    Len(text) >= 2 /\ text[Len(text) - 1] = "." /\ text[Len(text)] = "0"

\* companies.py lines 73-74 with the artifact left in place
DropPointZero_Keep(text) == text

\* companies.py lines 73-74
DropPointZero(text) ==
    IF EndsWithPointZero(text) /\ isdigit(SubSeq(text, 1, Len(text) - 2))
    THEN SubSeq(text, 1, Len(text) - 2)
    ELSE text

\* str.zfill for a text without sign
RECURSIVE zfill(_, _)
zfill(text, width) == IF Len(text) >= width THEN text ELSE zfill(<< "0" >> \o text, width)

\* companies.py lines 64-81
normalize_code(value, width) ==
    IF value.kind = "none" THEN None
    ELSE LET stripped == Strip(StrOf(value))
         IN  IF stripped = << >> THEN None
             ELSE LET text == Without(DropPointZero(stripped), ",")
                  IN  IF isdigit(text) /\ width # 0 /\ Len(text) < width
                      THEN Some(zfill(text, width))
                      ELSE Some(text)

\* companies.py lines 140 and 333
CorpCodeWidth == 8
\* companies.py lines 157 and 264
StockCodeWidth == 6

CodeWidths == { CorpCodeWidth, StockCodeWidth }

\* the texts of at most n characters over an alphabet
TextsOver(alphabet, n) == UNION { [1 .. k -> alphabet] : k \in 0 .. n }

\* digit texts as a roster file or a spreadsheet gives them
CodeTexts ==
    LET digits == TextsOver({ "0", "7" }, MaxCodeLen) \ { << >> }
    IN  digits \cup { d \o << ".", "0" >> : d \in digits }

\* short texts of the characters the two helpers tell apart
OddTexts == TextsOver({ "1", "0", ",", "-", "+", " ", ".", "_", "x" }, MaxText)

RawValues ==
    { Str(t) : t \in CodeTexts \cup OddTexts }
    \cup { Num(n) : n \in { 0 - 1234, 0, 7, 1000, 126380 } }
    \cup { Float(t) : t \in { 0 - 37, 0, 37, 59300 } }
    \cup { Inf(1), Inf(0 - 1), NaN, NoneValue }

InitHelpers ==
    /\ BackfillIdle
    /\ cfg = Config("skip", "exit", FALSE)
    /\ remote = NoRemote
    /\ EventsIdle
    /\ NotesIdle
    /\ JobIdle
    /\ ThrottleIdle
    /\ RaceIdle
    /\ RosterIdle
    /\ fn_arg \in RawValues
    /\ fn_width = 0
    /\ fn_call = "none"
    /\ fn_result = None

\* financials.py lines 26-47: parse_amount(value)
ParseAmount ==
    /\ fn_call = "none"
    /\ fn_call' = "parse_amount"
    /\ fn_result' = parse_amount(fn_arg)
    /\ UNCHANGED << fn_arg, fn_width, throttle_vars, late_vars, other_frame >>

\* companies.py lines 64-81: _normalize_code(value, width)
NormalizeCode(width) ==
    /\ fn_call = "none"
    /\ fn_call' = "_normalize_code"
    /\ fn_width' = width
    /\ fn_result' = normalize_code(fn_arg, width)
    /\ UNCHANGED << fn_arg, throttle_vars, late_vars, other_frame >>

NextHelpers ==
    \/ ParseAmount
    \/ \E width \in CodeWidths : NormalizeCode(width)

SpecHelpers == InitHelpers /\ [][NextHelpers]_vars

(***************************************************************************)
(* One fleet backfill with action `pause` against a fixed remote that      *)
(* answers with the rate-limit error finitely many times.  The process     *)
(* runs on: the sleep of the pause ends, no fault, no kill.                *)
(***************************************************************************)
PauseConfigs == { Config("skip", "pause", FALSE), Config("stop", "pause", FALSE) }

InitPause ==
    /\ BackfillIdle
    /\ cfg \in PauseConfigs
    /\ remote \in FixedRemotes
    /\ EventsIdle
    /\ NotesIdle
    /\ JobIdle
    /\ RestIdle

\* the command is started once
StartOnce ==
    /\ exit_state = "none"
    /\ StartBackfill

\* the remote gives the unit's data answer, or, while it still limits, the
\* rate-limit error
FetchPause ==
    /\ pc = "fetch"
    /\ \/ RemoteCall(remote[CurCorp][unit_idx])
       \/ n_calls < MaxCalls /\ RemoteCall(RateLimitError)

NextPause ==
    \/ StartOnce
    \/ EnterCompany
    \/ FinishCommand
    \/ CheckUnit
    \/ FetchPause
    \/ InsertItems
    \/ RecordProgress
    \/ AfterCompany("")

\* a step of the process other than the remote call
LocalStep ==
    \/ StartOnce
    \/ EnterCompany
    \/ FinishCommand
    \/ CheckUnit
    \/ InsertItems
    \/ RecordProgress
    \/ AfterCompany("")

\* the remote call returns: the step FetchPause, told by the position alone
FetchReturns == pc = "fetch" /\ pc' \in { "insert", "record" }

\* the process goes on while it has a step to take, and every remote call
\* returns
SpecPause ==
    InitPause /\ [][NextPause]_vars /\ WF_vars(LocalStep) /\ WF_pc(FetchReturns)

(***************************************************************************)
(* Two backfill_company runs over the same company, each in a process of   *)
(* its own with a session of its own, against one store and one remote.    *)
(* A step is one store statement with its commit, or one remote call.  The *)
(* remote answers MaxRaceCalls calls with data or an error and every later *)
(* call with the rate-limit error.                                         *)
(***************************************************************************)
Racers == { 1, 2 }

\* the company both runs backfill: the first of the fleet
RaceCorp == get_companies_for_backfill(FALSE)[1]

RaceAnswers ==
    { Answer("frame", FrameA, ""), Answer("frame", FrameB, ""),
      Answer("status", << >>, NO_DATA), Answer("status", << >>, DATA_NOT_EXIST),
      RateLimitError }

\* financials.py lines 213-222: a run before its first unit
NewRacer == [pc |-> "check", unit_idx |-> 1, records |-> << >>, status |-> "", wrote |-> { }]

\* the rows the select of lines 227-234 finds
CompletedRows(table, corp_code, year, report_code) ==
    { p \in table : ProgressKey(p) = << corp_code, year, report_code >> /\ p.status = "completed" }

InitRace ==
    /\ BackfillIdle
    /\ cfg \in Configs
    /\ remote = NoRemote
    /\ EventsIdle
    /\ NotesIdle
    /\ JobIdle
    /\ ThrottleIdle
    /\ HelperIdle
    /\ RosterIdle
    /\ race = [ r \in Racers |-> NewRacer ]
    /\ race_calls = 0

race_frame == << pc, cfg, companies, company_idx, unit_idx, stats, aggregate, records,
                 rowcount, status, last_answer, exit_state, run_calls, called, run_written,
                 tallied, retry_of, n_calls, n_faults, remote, events_vars, notes_vars,
                 job_vars, throttle_vars, helper_vars, roster_vars >>

\* financials.py lines 224-238 and 263: scalar_one_or_none raises
\* MultipleResultsFound when the select finds two rows
RaceCheck(r) ==
    /\ race[r].pc = "check"
    /\ LET k == race[r].unit_idx
           found == CompletedRows(progress, RaceCorp, UnitAt(k).year, UnitAt(k).report_code)
       IN  race' = [race EXCEPT ![r] =
                      IF k > NumUnits THEN [@ EXCEPT !.pc = "returned"]
                      ELSE IF Cardinality(found) > 1 THEN [@ EXCEPT !.pc = "raised"]
                      ELSE IF IsDone(progress, RaceCorp, UnitAt(k).year, UnitAt(k).report_code)
                           THEN [@ EXCEPT !.unit_idx = k + 1]
                      ELSE [@ EXCEPT !.pc = "fetch"]]
    /\ UNCHANGED << fundamentals, progress, race_calls, race_frame >>

\* financials.py lines 126-136 and 159-180: the remote call
RaceFetch(r, answer) ==
    /\ race[r].pc = "fetch"
    /\ IF race_calls < MaxRaceCalls
       THEN race_calls' = race_calls + 1
       ELSE answer = RateLimitError /\ race_calls' = race_calls
    /\ LET k == race[r].unit_idx
           out == finstate_all(answer)
           recs == transform_financial_data(out.rows, RaceCorp, UnitAt(k).year,
                                            UnitAt(k).report_code)
       IN  race' = [race EXCEPT ![r] =
                      IF HasRows(out, recs)
                      THEN [@ EXCEPT !.pc = "insert", !.records = recs]
                      ELSE [@ EXCEPT !.pc = "record",
                                     !.status = FetchStatus(out, cfg.on_error_013)]]
    /\ UNCHANGED << fundamentals, progress, race_frame >>

\* financials.py lines 138-157: the insert and its commit
RaceInsert(r) ==
    /\ race[r].pc = "insert"
    /\ fundamentals' = InsertOnConflictDoNothing(fundamentals, race[r].records).table
    /\ race' = [race EXCEPT ![r] = [@ EXCEPT !.pc = "record", !.status = "success",
                                             !.wrote = @ \cup { race[r].unit_idx }]]
    /\ UNCHANGED << progress, race_calls, race_frame >>

\* financials.py lines 253-261 with _record_progress (266-292)
RaceRecord(r) ==
    /\ race[r].pc = "record"
    /\ LET k == race[r].unit_idx
           ck == Checkpoint(race[r].status)
       IN  progress' = record_progress(progress, RaceCorp, UnitAt(k).year,
                                       UnitAt(k).report_code, ck.status, ck.error_message)
    /\ race' = [race EXCEPT ![r] =
                  IF ReturnsAfterRecord(race[r].status)
                  THEN [@ EXCEPT !.pc = "returned", !.records = << >>]
                  ELSE [@ EXCEPT !.pc = "check", !.unit_idx = @ + 1, !.records = << >>,
                                 !.status = ""]]
    /\ UNCHANGED << fundamentals, race_calls, race_frame >>

NextRace ==
    \E r \in Racers :
        \/ RaceCheck(r)
        \/ \E answer \in RaceAnswers : RaceFetch(r, answer)
        \/ RaceInsert(r)
        \/ RaceRecord(r)

SpecRace == InitRace /\ [][NextRace]_vars

(***************************************************************************)
(* Roster ingestion: etl/companies.py ingest_companies_from_csv on the     *)
(* table companies, through a session with or without autoflush.  A code,  *)
(* a ticker and a name are sequences of one-character strings; a company   *)
(* is a record of its columns, stock_code being None or Some(ticker).      *)
(***************************************************************************)
Company(corp_code, stock_code, corp_name, delisted) ==
    [corp_code |-> corp_code, stock_code |-> stock_code, corp_name |-> corp_name,
     delisted |-> delisted]

\* the companies stored before the ingestion: one delisted and one listed,
\* each with a ticker (tests/test_companies_ingest.py lines 64-72)
StoredCompanies ==
    { Company(zfill(<< "1" >>, CorpCodeWidth), Some(zfill(<< "1", "1", "1" >>, StockCodeWidth)),
              << "D" >>, TRUE),
      Company(zfill(<< "2" >>, CorpCodeWidth), Some(zfill(<< "2", "2", "2" >>, StockCodeWidth)),
              << "A" >>, FALSE) }

CsvRow(corp_code, corp_name, stock_code) ==
    [corp_code |-> corp_code, corp_name |-> corp_name, stock_code |-> stock_code]

\* the cells of a roster file: a new code in two spellings, a second new
\* code, a stored code; no ticker, the two stored tickers, a free ticker
RosterCodes ==
    { Str(<< "3" >>), Str(zfill(<< "3" >>, CorpCodeWidth)), Str(<< "4" >>), Str(<< "2" >>) }

RosterTickers ==
    { NoneValue, Str(<< "1", "1", "1" >>), Str(<< "2", "2", "2" >>), Str(<< "5" >>) }

RosterRows ==
    { CsvRow(c, << "N" >>, t) : c \in RosterCodes, t \in RosterTickers }
    \cup { CsvRow(c, << " " >>, NoneValue) : c \in RosterCodes }
    \cup { CsvRow(Str(<< >>), << "N" >>, NoneValue) }

RosterFiles == UNION { [1 .. n -> RosterRows] : n \in 0 .. MaxRows }

\* the UPDATEs of a flush: the cleared tickers reach the table
FlushDirty(table, dirty) ==
    { IF c.corp_code \in dirty THEN [c EXCEPT !.stock_code = None] ELSE c : c \in table }

\* models.py lines 31-34: the primary key corp_code and the unique stock_code
Collides(table, company) ==
    \E x \in table : \/ x.corp_code = company.corp_code
                     \/ (company.stock_code # None /\ x.stock_code = company.stock_code)

\* the INSERTs of a flush, in the order of session.add; the first that
\* breaks a constraint raises IntegrityError
RECURSIVE FlushNew(_, _)
FlushNew(table, new) ==
    IF new = << >> THEN [ok |-> TRUE, table |-> table]
    ELSE IF Collides(table, Head(new)) THEN [ok |-> FALSE, table |-> table]
    ELSE FlushNew(table \cup { Head(new) }, Tail(new))

\* Session.flush: the UPDATEs, then the INSERTs
Flush(table, dirty, new) == FlushNew(FlushDirty(table, dirty), new)

\* the companies as the session's objects give them: the rows of the table
\* with the changes made in memory, and the companies added
Visible(table, dirty, new) == FlushDirty(table, dirty) \cup Range(new)

\* the company that holds a ticker among the session's objects:
\* "none", "listed" or "delisted"
HolderOf(ticker, table, dirty, new) ==
    LET holders == { x \in Visible(table, dirty, new) : x.stock_code = ticker }
    IN  IF ticker = None \/ holders = { } THEN "none"
        ELSE IF \E x \in holders : ~x.delisted THEN "listed" ELSE "delisted"

\* Python's `not value` for an optional text
Falsy(opt) == opt = None \/ opt[1] = << >>

\* seen_corp_codes left as it was
Remember_Nothing(seen, corp_code) == seen

\* companies.py line 151
Remember(seen, corp_code) == seen \cup { corp_code }

\* the row counted under created whatever was done with it
Count_AlwaysCreated(st, outcome) == [st EXCEPT !.created = @ + 1]

\* companies.py lines 144, 148, 154, 168, 175, 186 and 189: the row counted
Count(st, outcome) == [st EXCEPT ![outcome] = @ + 1]

\* the session after one pass of the loop body (companies.py lines 139-189)
\* over a row: outcome names the counter of the row, raised tells that a
\* statement of the session raised, broken that it was a flush.  With
\* autoflush a query is preceded by a flush; select_fails tells that the
\* row's first query raises.  is_priority and listing_date are left out.
ingest_row(row, table, dirty, new, seen, flushing, policy, select_fails) ==
    LET corp_code == normalize_code(row.corp_code, CorpCodeWidth)
        corp_name == Strip(row.corp_name)
        stock_code == normalize_code(row.stock_code, StockCodeWidth)
        same(outcome) == [table |-> table, dirty |-> dirty, new |-> new, seen |-> seen,
                          outcome |-> outcome, reassigned |-> 0, raised |-> FALSE,
                          broken |-> FALSE]
    IN  IF Falsy(corp_code) \/ corp_name = << >> THEN same("skipped_invalid")
        ELSE IF corp_code[1] \in seen THEN same("skipped_duplicates")
        ELSE
          LET seen1 == Remember(seen, corp_code[1])
              fl == IF flushing THEN Flush(table, dirty, new)
                    ELSE [ok |-> TRUE, table |-> table]
              dirty1 == IF flushing THEN { } ELSE dirty
              new1 == IF flushing THEN << >> ELSE new
              at(outcome) == [table |-> fl.table, dirty |-> dirty1, new |-> new1,
                              seen |-> seen1, outcome |-> outcome, reassigned |-> 0,
                              raised |-> FALSE, broken |-> FALSE]
              holders == { x \in fl.table : x.stock_code = stock_code }
              company == Company(corp_code[1], stock_code, Truncate(corp_name, 255), FALSE)
              created == [at("created") EXCEPT !.new = Append(new1, company)]
          IN  IF ~fl.ok \/ select_fails
              THEN [same("errors") EXCEPT !.seen = seen1, !.raised = TRUE,
                                          !.broken = ~fl.ok]
              ELSE IF \E x \in fl.table : x.corp_code = corp_code[1]
                   THEN at("skipped_duplicates")
              ELSE IF Falsy(stock_code) \/ holders = { } THEN created
              ELSE IF Cardinality(holders) > 1
                   THEN [at("errors") EXCEPT !.raised = TRUE]
              ELSE LET existing_stock == CHOOSE x \in holders : TRUE
                   IN  IF existing_stock.corp_code = corp_code[1] THEN created
                       ELSE IF ~existing_stock.delisted THEN at("skipped_stock_conflicts")
                       ELSE IF policy = "reassign"
                            THEN [created EXCEPT
                                    !.dirty = dirty1 \cup { existing_stock.corp_code },
                                    !.reassigned = 1]
                       ELSE at("skipped_stock_conflicts")

\* a command `ingest-companies` (cli.py lines 73-85) at the loop of line
\* 138: the file is read, the counters are zero
InitRoster ==
    /\ BackfillIdle
    /\ cfg = Config("skip", "exit", FALSE)
    /\ remote = NoRemote
    /\ EventsIdle
    /\ NotesIdle
    /\ JobIdle
    /\ ThrottleIdle
    /\ HelperIdle
    /\ RaceIdle
    /\ co_table = StoredCompanies
    /\ co_before = StoredCompanies
    /\ session_new = << >>
    /\ session_dirty = { }
    /\ autoflush \in BOOLEAN
    /\ on_stock_code_reuse \in { "reassign", "reject" }
    /\ csv_rows \in RosterFiles
    /\ row_idx = 1
    /\ ing_stats = [ZeroIngestStats EXCEPT !.total_rows = Len(csv_rows)]
    /\ seen_corp_codes = { }
    /\ ing_pc = "loop"
    /\ row_log = << >>

roster_frame == << backfill_vars, events_vars, notes_vars, job_vars, throttle_vars,
                   helper_vars, race_vars >>

\* what is recorded of a row: its normalized code, whether code and name are
\* there, who held its ticker among the session's objects before the row,
\* its counter, whether the session's objects are as before the row, and
\* whether the row's company is now the one holder of its ticker
LogEntry(row, r) ==
    LET corp_code == normalize_code(row.corp_code, CorpCodeWidth)
        stock_code == normalize_code(row.stock_code, StockCodeWidth)
        before == Visible(co_table, session_dirty, session_new)
        after == Visible(r.table, r.dirty, r.new)
    IN  [code |-> corp_code,
         valid |-> ~(Falsy(corp_code) \/ Strip(row.corp_name) = << >>),
         stored |-> \E x \in before : Some(x.corp_code) = corp_code,
         ticker |-> stock_code,
         holder |-> IF Falsy(stock_code) THEN "none"
                    ELSE HolderOf(stock_code, co_table, session_dirty, session_new),
         outcome |-> r.outcome,
         same_view |-> after = before,
         sole_holder |-> /\ \E x \in after : Some(x.corp_code) = corp_code /\ x.stock_code = stock_code
                         /\ \A x \in after : x.stock_code = stock_code => Some(x.corp_code) = corp_code]

\* the session and the counters after the row at row_idx
RowDone(r) ==
    /\ co_table' = r.table
    /\ session_dirty' = r.dirty
    /\ session_new' = r.new
    /\ seen_corp_codes' = r.seen
    /\ ing_stats' = [Count(ing_stats, r.outcome) EXCEPT !.reassigned_stock_codes = @ + r.reassigned]
    /\ row_log' = Append(row_log, LogEntry(csv_rows[row_idx], r))
    /\ row_idx' = row_idx + 1
    /\ ing_pc' = IF r.broken THEN "broken" ELSE ing_pc
    /\ UNCHANGED << co_before, autoflush, on_stock_code_reuse, csv_rows, roster_frame >>

\* companies.py lines 138-189: one row; after a failed flush every query of
\* the session raises
IngestRow ==
    /\ ing_pc \in { "loop", "broken" }
    /\ row_idx <= Len(csv_rows)
    /\ RowDone(ingest_row(csv_rows[row_idx], co_table, session_dirty, session_new,
                          seen_corp_codes, autoflush, on_stock_code_reuse,
                          ing_pc = "broken"))

\* companies.py lines 187-189: a query of the row raises, the row is counted
\* under errors and the loop goes on
IngestRowFault ==
    /\ ing_pc = "loop"
    /\ row_idx <= Len(csv_rows)
    /\ ing_stats.errors < MaxFaults
    /\ LET r == ingest_row(csv_rows[row_idx], co_table, session_dirty, session_new,
                           seen_corp_codes, autoflush, on_stock_code_reuse, TRUE)
       IN  r.raised /\ RowDone(r)

\* companies.py lines 191-192: the commit flushes; when it raises nothing
\* of the ingestion is stored (db.py lines 52-56)
CommitIngest ==
    /\ ing_pc \in { "loop", "broken" }
    /\ row_idx > Len(csv_rows)
    /\ LET fl == Flush(co_table, session_dirty, session_new)
       IN  IF ing_pc = "loop" /\ fl.ok
           THEN co_table' = fl.table /\ ing_pc' = "returned"
           ELSE co_table' = co_before /\ ing_pc' = "raised"
    /\ session_new' = << >>
    /\ session_dirty' = { }
    /\ UNCHANGED << co_before, autoflush, on_stock_code_reuse, csv_rows, row_idx, ing_stats,
                    seen_corp_codes, row_log, roster_frame >>

NextRoster ==
    \/ IngestRow
    \/ IngestRowFault
    \/ CommitIngest

SpecRoster == InitRoster /\ [][NextRoster]_vars

(***************************************************************************)
(* What the properties read of a state.                                    *)
(***************************************************************************)
CorpCodes == { r.corp_code : r \in Roster }
UnitIdxs == 1 .. NumUnits

\* the checkpoint rows of unit k of company c
ProgressRows(table, c, k) ==
    { p \in table : ProgressKey(p) = << c, UnitAt(k).year, UnitAt(k).report_code >> }

HasCheckpoint(table, c, k, st) == \E p \in ProgressRows(table, c, k) : p.status = st

\* the line items of the unit with progress key `key`, each with its copies
ItemsOfKey(table, key) ==
    LET rows == { r \in BagToSet(table) : << r.corp_code, r.year, r.report_code >> = key }
    IN  [ r \in rows |-> CopiesIn(r, table) ]

\* the progress key of the unit at hand
CurKey == << CurCorp, CurUnit.year, CurUnit.report_code >>

\* backfill_company is running on company CurCorp
InRun == pc \in { "check", "fetch", "insert", "record", "returned" }

\* this step is a remote call
CallStep == n_calls' = n_calls + 1

\* this step ends the process (kill, uncaught exception or normal end)
EndStep == pc # "idle" /\ pc' = "idle"

Stored(r, table) == \E x \in BagToSet(table) : ConflictKey(x) = ConflictKey(r)

(***************************************************************************)
(* C1.  No remote fetch is issued for a unit whose checkpoint is           *)
(* `completed` when it is reached; that unit's checkpoint and line items   *)
(* are left unchanged.  Stated for every step: a unit that is completed    *)
(* before the step is not the unit of a remote call made by the step, and  *)
(* keeps its checkpoint row and its line items.                            *)
(***************************************************************************)
C1_CompletedUnitNotFetched ==
    [][ \A p \in progress :
          p.status = "completed" =>
             /\ ~(CallStep /\ CurKey = ProgressKey(p))
             /\ \/ progress' = progress
                \/ { q \in progress' : ProgressKey(q) = ProgressKey(p) } = { p }
             /\ \/ fundamentals' = fundamentals
                \/ ItemsOfKey(fundamentals', ProgressKey(p)) = ItemsOfKey(fundamentals, ProgressKey(p)) ]_vars

\* a run has passed unit 1, completed, without calling the remote for it
C1_Witness ==
    /\ pc = "fetch"
    /\ unit_idx = 2
    /\ run_calls = << >>
    /\ HasCheckpoint(progress, CurCorp, 1, "completed")

(***************************************************************************)
(* C2.  When the remote answers unit K with the rate-limit error 020,      *)
(* backfill_company records K's checkpoint as `rate_limited`, returns at   *)
(* once with rate_limited = true, calls the remote for no later unit and   *)
(* changes no checkpoint of a later unit.                                  *)
(***************************************************************************)
RateLimitAnswer == last_answer.kind = "status" /\ last_answer.status = RATE_LIMIT

C2_RateLimitStops ==
    /\ [](pc = "record" /\ RateLimitAnswer => stats.rate_limited)
    /\ [](pc = "returned" /\ stats.rate_limited =>
            /\ run_calls # << >>
            /\ run_calls[Len(run_calls)] = unit_idx
            /\ HasCheckpoint(progress, CurCorp, unit_idx, "rate_limited"))
    /\ [][ (pc = "record" /\ RateLimitAnswer /\ ~EndStep) =>
             /\ pc' = "returned"
             /\ unit_idx' = unit_idx
             /\ stats'.rate_limited
             /\ HasCheckpoint(progress', CurCorp, unit_idx, "rate_limited") ]_vars
    /\ [][ (InRun /\ stats.rate_limited) =>
             /\ ~CallStep
             /\ \A k \in UnitIdxs :
                  k > unit_idx =>
                     ProgressRows(progress', CurCorp, k) = ProgressRows(progress, CurCorp, k) ]_vars

\* a run returned on the rate limit at its second call, with later units left
C2_Witness ==
    /\ pc = "returned"
    /\ stats.rate_limited
    /\ Len(run_calls) = 2
    /\ unit_idx < NumUnits

(***************************************************************************)
(* C3.  Under no-data policy `skip`, a unit answered with the no-data      *)
(* error 013 gets no new or changed checkpoint row; it is counted as       *)
(* skipped and the next unit is processed.                                 *)
(***************************************************************************)
NoDataAnswer == last_answer.kind = "status" /\ last_answer.status = NO_DATA

C3_SkipRecordsNothing ==
    [][ (pc = "record" /\ NoDataAnswer /\ cfg.on_error_013 = "skip" /\ ~EndStep) =>
          /\ ProgressRows(progress', CurCorp, unit_idx) = ProgressRows(progress, CurCorp, unit_idx)
          /\ stats.skipped >= 1
          /\ pc' = "check"
          /\ unit_idx' = unit_idx + 1 ]_vars

(***************************************************************************)
(* C4.  Per unit the order is: remote call, commit of the line items,      *)
(* commit of the checkpoint, and only then the next unit's remote call.    *)
(* So a checkpoint becomes `completed` only with the unit's line items     *)
(* already committed, a unit interrupted mid-way is not completed (the     *)
(* next run fetches it), and a kill changes nothing in the store.          *)
(***************************************************************************)
C4_CommitOrder ==
    \* mid-unit, the unit's checkpoint is not completed
    /\ [](pc \in { "fetch", "insert", "record" } =>
            ~HasCheckpoint(progress, CurCorp, unit_idx, "completed"))
    \* at a remote call, every unit called earlier in the run has its checkpoint
    /\ [](pc = "fetch" =>
            \A j \in Range(run_calls) :
               \/ HasCheckpoint(progress, CurCorp, j, "completed")
               \/ HasCheckpoint(progress, CurCorp, j, "failed"))
    \* a checkpoint becomes completed in the checkpoint step of that unit, after
    \* its line items are in the store
    /\ [][ \A p \in progress' \ progress :
             p.status = "completed" =>
                /\ pc = "record" /\ CurKey = ProgressKey(p)
                /\ \A i \in DOMAIN records : Stored(records[i], fundamentals)
                /\ fundamentals' = fundamentals ]_vars
    \* the line items are committed after the call and before the checkpoint
    /\ [][ fundamentals' # fundamentals =>
             pc = "insert" /\ pc' = "record" /\ progress' = progress /\ ~CallStep ]_vars
    \* a unit reached and not completed is fetched
    /\ [][ (pc = "check" /\ unit_idx <= NumUnits /\ ~EndStep
            /\ ~HasCheckpoint(progress, CurCorp, unit_idx, "completed")) =>
              pc' = "fetch" /\ unit_idx' = unit_idx ]_vars
    \* the end of the process changes nothing in the store
    /\ [][ EndStep => progress' = progress /\ fundamentals' = fundamentals ]_vars

\* the process was killed after the line items of a unit were committed and
\* before its checkpoint
C4_Witness ==
    /\ exit_state = "killed"
    /\ fundamentals # EmptyBag
    /\ progress = { }

(***************************************************************************)
(* C5.  Processing a unit twice with the same remote answer ends with the  *)
(* same checkpoint status and the same line-item rows as processing it     *)
(* once, whether the second attempt is skipped by the checkpoint or, the   *)
(* checkpoint having been lost before its commit, fetched again; and the   *)
(* table never holds two rows for one (business key, version).             *)
(***************************************************************************)
UniqueEntries(table) ==
    /\ \A r \in BagToSet(table) : CopiesIn(r, table) = 1
    /\ Cardinality({ ConflictKey(r) : r \in BagToSet(table) }) = Cardinality(BagToSet(table))

C5_AttemptTwice ==
    /\ UniqueEntries(fundamentals)
    /\ pc = "fetch" =>
          \A answer \in RemoteAnswers :
             LET out == finstate_all(answer)
                 recs == transform_financial_data(out.rows, CurCorp, CurUnit.year,
                                                  CurUnit.report_code)
                 store == [fundamentals |-> fundamentals, progress |-> progress]
                 once == ProcessUnit(store, CurCorp, unit_idx, out, recs, cfg.on_error_013)
                 lost == [once EXCEPT !.progress = progress]
             IN  /\ ProcessUnit(once, CurCorp, unit_idx, out, recs, cfg.on_error_013) = once
                 /\ ProcessUnit(lost, CurCorp, unit_idx, out, recs, cfg.on_error_013) = once
                 /\ UniqueEntries(once.fundamentals)

\* the steps of one attempt write what ProcessUnit computes for it: the insert
\* its line items, the checkpoint its progress row (an attempt whose insert
\* raised has no counterpart in ProcessUnit and is left out)
C5_StepsFollowProcessUnit ==
    LET store == [fundamentals |-> fundamentals, progress |-> progress]
        whole == ProcessUnit(store, CurCorp, unit_idx, finstate_all(last_answer),
                             records, cfg.on_error_013)
    IN  /\ pc = "insert" /\ pc' = "record" /\ status'.status = "success"
              => fundamentals' = whole.fundamentals
        /\ pc = "record" /\ pc' \in {"check", "returned"}
                        /\ ~(records # << >> /\ status.status = "error")
              => progress' = whole.progress /\ fundamentals' = whole.fundamentals

\* C5: processing a unit twice with the same remote answer leaves the store as
\* processing it once, no (business key, version) is ever stored twice, and the
\* attempt the program runs is the one ProcessUnit computes
C5_Idempotent == []C5_AttemptTwice /\ [][C5_StepsFollowProcessUnit]_vars

\* a unit was fetched a second time with the answer already stored: its insert
\* found every row of the batch in the table, as it was stored the first time
C5_Witness ==
    /\ pc = "record"
    /\ status.status = "success"
    /\ rowcount = 0
    /\ \A i \in DOMAIN records : records[i] \in BagToSet(fundamentals)

(***************************************************************************)
(* C6.  When a unit is fetched again and the remote returns, for a key     *)
(* that is stored, a content (amount or name) different from the stored    *)
(* latest version N, exactly one new row with version N+1 is inserted for  *)
(* that key, the version-N row is kept, and the latest view returns the    *)
(* new row.                                                                *)
(***************************************************************************)
RowsOfKey(table, r) == { x \in BagToSet(table) : BusinessKey(x) = BusinessKey(r) }

\* alembic 002: the row of maximal version of a business key
Latest(rows) == CHOOSE x \in rows : \A y \in rows : y.version <= x.version

SameContent(x, r) == x.amount = r.amount /\ x.account_name = r.account_name

C6_ChangedContentNewVersion ==
    [][ (pc = "insert" /\ pc' = "record" /\ status'.status = "success") =>
          \A i \in DOMAIN records :
             LET r == records[i]
                 old == RowsOfKey(fundamentals, r)
                 new == RowsOfKey(fundamentals', r)
             IN  (old # { } /\ ~SameContent(Latest(old), r)) =>
                    /\ old \subseteq new
                    /\ Cardinality(new) = Cardinality(old) + 1
                    /\ Latest(new).version = Latest(old).version + 1
                    /\ SameContent(Latest(new), r) ]_vars

(***************************************************************************)
(* C7.  The number a batch insert reports as written (returned by the      *)
(* fetch and added to total_records) is the number of rows inserted into   *)
(* the store; a batch of already-stored keys reports 0.                    *)
(***************************************************************************)
C7_ReportedEqualsWritten ==
    [][ (pc = "insert" /\ pc' = "record" /\ status'.status = "success") =>
          LET written == BagCardinality(fundamentals') - BagCardinality(fundamentals)
          IN  /\ status'.inserted = written
              /\ stats'.total_records = stats.total_records + written ]_vars

(***************************************************************************)
(* C8.  A unit answered with an error code other than 013 and 020 gets the *)
(* checkpoint `failed` with a detail carrying the code; errors grows by    *)
(* exactly one, rate_limited stays false, and the run goes on with the     *)
(* next unit.                                                              *)
(***************************************************************************)
OtherErrorAnswer(answer) ==
    answer.kind = "status" /\ answer.status \notin { "000", NO_DATA, RATE_LIMIT }

C8_OtherErrorIsFailed ==
    \* the call: one more error, nothing else counted
    /\ [][ (CallStep /\ OtherErrorAnswer(last_answer')) =>
             /\ stats' = [stats EXCEPT !.errors = @ + 1]
             /\ ~stats'.rate_limited
             /\ pc' = "record" ]_vars
    \* the checkpoint: failed, with the code; then the next unit
    /\ [][ (pc = "record" /\ OtherErrorAnswer(last_answer) /\ ~EndStep) =>
             /\ ProgressRows(progress', CurCorp, unit_idx) =
                   { [corp_code |-> CurCorp, year |-> CurUnit.year,
                      report_code |-> CurUnit.report_code, status |-> "failed",
                      error_message |-> Some("error_" \o last_answer.status)] }
             /\ stats' = stats
             /\ pc' = "check"
             /\ unit_idx' = unit_idx + 1 ]_vars
    \* a later unit reached is fetched or skipped as any other
    /\ [](pc \in { "check", "fetch", "insert" } => ~stats.rate_limited)

\* after a unit failed with code 800 the run is at the call of the next unit
C8_Witness ==
    /\ pc = "fetch"
    /\ unit_idx = 2
    /\ run_calls = << 1 >>
    /\ stats.errors = 1
    /\ \E p \in ProgressRows(progress, CurCorp, 1) :
          p.status = "failed" /\ p.error_message = Some("error_800")

(***************************************************************************)
(* C9.  A store write that fails while a unit is processed (the line-item  *)
(* insert or the write of the unit's checkpoint) is contained in the unit: *)
(* nothing is added to the store, errors grows by one, and                 *)
(* backfill_company goes on instead of raising.                            *)
(***************************************************************************)
StoreFaultStep ==
    /\ pc \in { "insert", "record" }
    /\ n_faults' = n_faults + 1
    /\ exit_state' # "killed"

C9_StoreFaultContained ==
    [][ StoreFaultStep =>
          /\ exit_state' # "raised"
          /\ pc' \in { "record", "check" }
          /\ stats'.errors = stats.errors + 1
          /\ fundamentals' = fundamentals
          /\ (pc = "record" => rowcount = 0) ]_vars

(***************************************************************************)
(* C10.  With rate-limit action `pause`, after a company's backfill        *)
(* returns rate_limited = true the driver runs the same company again and  *)
(* advances only when a backfill of it returns without rate_limited; the   *)
(* retry calls the remote for no completed unit.  As claimed, the first    *)
(* remote call of the retry is for the unit that was rate limited.         *)
(***************************************************************************)
C10_RetryStartsAtRateLimitedUnit ==
    (InRun /\ retry_of # 0 /\ run_calls # << >>) => run_calls[1] = retry_of

\* C10 amended: the first remote call of the retry is for the first unit, in
\* iteration order, whose checkpoint is not completed: the rate-limited unit,
\* or an earlier unit whose checkpoint is failed.
C10_PauseRetriesSameCompany ==
    /\ [][ (pc = "returned" /\ stats.rate_limited /\ cfg.on_rate_limit = "pause"
            /\ ~EndStep) =>
             /\ pc' = "driver"
             /\ company_idx' = company_idx
             /\ companies' = companies
             /\ retry_of' = unit_idx ]_vars
    /\ [][ (company_idx' # company_idx /\ ~EndStep) =>
             pc = "returned" /\ ~stats.rate_limited ]_vars
    /\ [][ CallStep => ~HasCheckpoint(progress, CurCorp, unit_idx, "completed") ]_vars
    /\ [](InRun /\ retry_of # 0 /\ pc = "fetch" /\ run_calls = << >> =>
            /\ \A j \in 1 .. unit_idx - 1 : HasCheckpoint(progress, CurCorp, j, "completed")
            /\ \/ unit_idx = retry_of
               \/ unit_idx < retry_of /\ HasCheckpoint(progress, CurCorp, unit_idx, "failed"))
    /\ [](InRun /\ retry_of # 0 /\ run_calls # << >> =>
            /\ run_calls[1] <= retry_of
            /\ \A j \in 1 .. run_calls[1] - 1 : HasCheckpoint(progress, CurCorp, j, "completed"))

\* under `pause`, the retry of a company has made its first remote call, for
\* the unit that was rate limited
C10_Witness ==
    /\ cfg.on_rate_limit = "pause"
    /\ InRun
    /\ retry_of # 0
    /\ run_calls # << >>
    /\ run_calls[1] = retry_of

(***************************************************************************)
(* C11.  In the fleet backfill with action `exit` (configured, or taken by *)
(* `prompt` when the operator types `exit` or an empty line), the first    *)
(* company backfill that returns rate_limited = true ends the command: no  *)
(* further remote call, no checkpoint changed, and the aggregate summary,  *)
(* with this company's counters added, is emitted.                         *)
(***************************************************************************)
\* the step ends the command through line 310 and leaves the store as it is
ExitsWithSummary ==
    /\ pc' = "idle"
    /\ exit_state' = "ok"
    /\ n_calls' = n_calls
    /\ progress' = progress
    /\ fundamentals' = fundamentals
    /\ aggregate' = [total_records |-> aggregate.total_records + stats.total_records,
                     successful |-> aggregate.successful + stats.successful,
                     skipped |-> aggregate.skipped + stats.skipped,
                     errors |-> aggregate.errors + stats.errors,
                     rate_limited |-> TRUE]

CleanExitCode == ExitCode("ok")

C12_RateLimitExitDistinct ==
    /\ [][ (pc = "driver" /\ EndStep /\ n_faults' = n_faults) =>
             ExitCode(exit_state') = CleanExitCode ]_vars
    /\ [][ (pc = "returned" /\ stats.rate_limited /\ EndStep /\ n_faults' = n_faults) =>
             ExitCode(exit_state') # CleanExitCode ]_vars

(***************************************************************************)
(* C14.  The outcome of backfill_company does not depend on the no-data    *)
(* policy: for every remote answer to the unit at hand, `mark` and `stop`  *)
(* give the same status, the same counters (a no-data unit is skipped,     *)
(* never an error), the same store and the same continuation as `skip`.    *)
(***************************************************************************)
NoDataPolicies == { "skip", "mark", "stop" }

C14_PolicyIndependent ==
    pc = "fetch" =>
       \A answer \in RemoteAnswers :
          LET out == finstate_all(answer)
              recs == transform_financial_data(out.rows, CurCorp, CurUnit.year,
                                               CurUnit.report_code)
              store == [fundamentals |-> fundamentals, progress |-> progress]
              st(policy) == IF HasRows(out, recs) THEN "success"
                            ELSE FetchStatus(out, policy)
          IN  \A policy \in NoDataPolicies :
                 /\ Tally(stats, 0, st(policy)) = Tally(stats, 0, st("skip"))
                 /\ (out.code = NO_DATA =>
                        Tally(stats, 0, st(policy)) = [stats EXCEPT !.skipped = @ + 1])
                 /\ ReturnsAfterRecord(st(policy)) = ReturnsAfterRecord(st("skip"))
                 /\ ProcessUnit(store, CurCorp, unit_idx, out, recs, policy) =
                       ProcessUnit(store, CurCorp, unit_idx, out, recs, "skip")

(***************************************************************************)
(* C15.  A unit whose checkpoint is absent, `failed` or `rate_limited` is  *)
(* never treated as done: a run that reaches it goes to its remote fetch,  *)
(* and a unit is passed over only with a `completed` checkpoint.           *)
(***************************************************************************)
C15_NotDoneIsFetched ==
    /\ [](\A p \in progress : p.status \in { "completed", "failed", "rate_limited" })
    \* reached and not completed: the next step of the run is at its fetch
    /\ [][ (pc = "check" /\ unit_idx <= NumUnits /\ ~EndStep
            /\ \A p \in ProgressRows(progress, CurCorp, unit_idx) :
                  p.status \in { "failed", "rate_limited" }) =>
             pc' = "fetch" /\ unit_idx' = unit_idx ]_vars
    \* and the only step of the run from there is the remote call for that unit
    /\ [][ (pc = "fetch" /\ ~EndStep) =>
             CallStep /\ run_calls' = Append(run_calls, unit_idx) ]_vars
    \* passed over: completed
    /\ [][ (pc = "check" /\ pc' = "check") =>
             HasCheckpoint(progress, CurCorp, unit_idx, "completed") ]_vars

\* a unit whose checkpoint is `failed` has been fetched again
C15_Witness ==
    /\ pc = "record"
    /\ run_calls # << >>
    /\ run_calls[Len(run_calls)] = unit_idx
    /\ HasCheckpoint(progress, CurCorp, unit_idx, "failed")

(***************************************************************************)
(* C16.  There is at most one checkpoint row per (company, year, report    *)
(* period), and it holds the status and error detail of the most recent    *)
(* record for that key: a unit recorded `failed` with a detail and later   *)
(* `completed` ends `completed` with no detail.                            *)
(***************************************************************************)
C16_OneRowPerUnit ==
    /\ [](\A p \in progress : \A q \in progress : ProgressKey(p) = ProgressKey(q) => p = q)
    \* a record leaves, for its key, exactly the row just recorded, and the
    \* rows of the other keys as they were
    /\ [][ progress' # progress =>
             /\ pc = "record"
             /\ ProgressRows(progress', CurCorp, unit_idx) =
                   { [corp_code |-> CurCorp, year |-> CurUnit.year,
                      report_code |-> CurUnit.report_code,
                      status |-> Checkpoint(status.status).status,
                      error_message |-> Checkpoint(status.status).error_message] }
             /\ { p \in progress' : ProgressKey(p) # CurKey } =
                   { p \in progress : ProgressKey(p) # CurKey } ]_vars
    \* completed after failed: the detail is gone
    /\ [][ (pc = "record" /\ ~EndStep
            /\ status.status \in { "success", "skipped", "no_data", "no_records" }) =>
             \A p \in ProgressRows(progress', CurCorp, unit_idx) :
                p.status = "completed" /\ p.error_message = None ]_vars

\* under `stop`/`exit`, with three calls and no fault: unit 1 of the first
\* company was recorded `failed` by a first command that ended on the rate
\* limit of unit 2, and recorded `completed` by the second command
C16_Witness ==
    /\ cfg.on_rate_limit = "exit"
    /\ pc = "check"
    /\ company_idx = 1
    /\ unit_idx = 2
    /\ run_calls = << 1 >>
    /\ n_calls = 3
    /\ n_faults = 0
    /\ ProgressRows(progress, CurCorp, 1) =
          { [corp_code |-> CurCorp, year |-> UnitAt(1).year,
             report_code |-> UnitAt(1).report_code, status |-> "completed",
             error_message |-> None] }
    /\ HasCheckpoint(progress, CurCorp, 2, "rate_limited")

(***************************************************************************)
(* C17.  A successful answer with zero rows is handled exactly like the    *)
(* no-data error 013 under policy `skip`: one more skipped, no other       *)
(* counter changed, and the same checkpoint for the unit.                  *)
(***************************************************************************)
EmptyFrame == Answer("frame", << >>, "")

NoDataError == Answer("status", << >>, NO_DATA)

ZeroRows(answer) == answer.kind \in { "none", "frame" } /\ answer.rows = << >>

C17_EmptyLikeNoData ==
    /\ [](pc = "fetch" /\ cfg.on_error_013 = "skip" =>
            LET store == [fundamentals |-> fundamentals, progress |-> progress]
                empty == finstate_all(EmptyFrame)
                nodata == finstate_all(NoDataError)
            IN  /\ ProcessUnit(store, CurCorp, unit_idx, empty, << >>, "skip") =
                      ProcessUnit(store, CurCorp, unit_idx, nodata, << >>, "skip")
                /\ Tally(stats, 0, FetchStatus(empty, "skip")) =
                      Tally(stats, 0, FetchStatus(nodata, "skip")))
    /\ [][ (CallStep /\ cfg.on_error_013 = "skip"
            /\ (ZeroRows(last_answer') \/ last_answer' = NoDataError)) =>
             /\ stats' = [stats EXCEPT !.skipped = @ + 1]
             /\ status'.inserted = 0
             /\ pc' = "record" ]_vars
    /\ [][ (pc = "record" /\ ~EndStep /\ cfg.on_error_013 = "skip"
            /\ (ZeroRows(last_answer) \/ last_answer = NoDataError)) =>
             /\ ProgressRows(progress', CurCorp, unit_idx) =
                   { [corp_code |-> CurCorp, year |-> CurUnit.year,
                      report_code |-> CurUnit.report_code, status |-> "completed",
                      error_message |-> None] }
             /\ fundamentals' = fundamentals
             /\ stats' = stats
             /\ pc' = "check"
             /\ unit_idx' = unit_idx + 1 ]_vars

\* under `skip`, unit 1 was answered with the error 013 or with zero rows and
\* unit 2 with a frame of zero rows: both are counted skipped
C17_Witness ==
    /\ cfg.on_error_013 = "skip"
    /\ pc = "record"
    /\ last_answer = EmptyFrame
    /\ run_calls = << 1, 2 >>
    /\ stats = [ZeroStats EXCEPT !.skipped = 2]
    /\ HasCheckpoint(progress, CurCorp, 1, "completed")

(***************************************************************************)
(* C18.  No operation updates or deletes a stored line-item row: a row     *)
(* stored for a (business key, version) is there, with the same amount and *)
(* account name, in every later state, whatever later fetches return.      *)
(***************************************************************************)
C18_RowsNeverChange ==
    [][ \/ fundamentals' = fundamentals
        \/ \A r \in BagToSet(fundamentals) :
              /\ CopiesIn(r, fundamentals') = CopiesIn(r, fundamentals)
              /\ \A x \in BagToSet(fundamentals') :
                    ConflictKey(x) = ConflictKey(r) => x = r ]_vars

\* an insert met, for a stored key, an amount other than the stored one, and
\* inserted nothing
C18_Witness ==
    /\ pc = "record"
    /\ status.status = "success"
    /\ rowcount = 0
    /\ \E i \in DOMAIN records :
          \E x \in BagToSet(fundamentals) :
             ConflictKey(x) = ConflictKey(records[i]) /\ x.amount # records[i].amount

(***************************************************************************)
(* C13.  With a remote whose data answer for each unit is fixed, a         *)
(* backfill stopped by the rate limit at any units, any number of times,   *)
(* and run again until it finishes ends in the store of one run that never *)
(* met the rate limit, in whatever order that run takes the companies.     *)
(***************************************************************************)
\* backfill_company run without a rate limit on units k .. NumUnits of company c
RECURSIVE RunUnits(_, _, _, _, _)
RunUnits(store, rem, c, k, policy) ==
    IF k > NumUnits THEN store
    ELSE LET out == finstate_all(rem[c][k])
             recs == transform_financial_data(out.rows, c, UnitAt(k).year,
                                              UnitAt(k).report_code)
         IN  RunUnits(ProcessUnit(store, c, k, out, recs, policy), rem, c, k + 1, policy)

\* the fleet run without a rate limit over the companies of `order`
RECURSIVE RunFleet(_, _, _, _)
RunFleet(store, rem, order, policy) ==
    IF order = << >> THEN store
    ELSE RunFleet(RunUnits(store, rem, Head(order), 1, policy), rem, Tail(order), policy)

EmptyStore == [fundamentals |-> EmptyBag, progress |-> { }]

\* the orders in which the companies of a list can be taken
Orders(list) ==
    { [ i \in DOMAIN list |-> list[f[i]] ] :
        f \in { g \in [DOMAIN list -> DOMAIN list] : \A i, j \in DOMAIN list : g[i] = g[j] => i = j } }

C13_ResumedEqualsUninterrupted ==
    [][ (pc = "driver" /\ company_idx > Len(companies) /\ pc' = "idle") =>
          \A order \in Orders(companies) :
             [fundamentals |-> fundamentals', progress |-> progress'] =
                RunFleet(EmptyStore, remote, order, cfg.on_error_013) ]_vars

\* a fleet of two companies finished by a command that met no rate limit
\* itself, after the rate limit had stopped the backfill at least twice
C13_Witness ==
    /\ Len(get_companies_for_backfill(cfg.priority_only)) > 1
    /\ pc = "idle"
    /\ exit_state = "ok"
    /\ n_calls >= NumCompanies * NumUnits + 2
    /\ \A c \in CorpCodes : \A k \in UnitIdxs :
          \E p \in ProgressRows(progress, c, k) : p.status # "rate_limited"

(***************************************************************************)
(* C19.  Inserting key events whose receipt number is stored raises no     *)
(* error, adds no row and leaves the stored event (company, title, date)   *)
(* unchanged; running the event sync twice with the same remote answers    *)
(* gives the key-event table of running it once.                           *)
(***************************************************************************)
StoredEvent(r, table) == \E x \in table : x.rcept_no = r.rcept_no

\* fetch_all_events for one kind answered with `answer`, no store fault: the
\* table it leaves
SyncKind(table, answer) ==
    LET out == client_list(answer)
        recs == transform_events_data(out.rows)
    IN  IF out.kind = "df" /\ recs # << >>
        THEN ExecuteInsertKeyEvents(table, recs).table
        ELSE table

\* fetch_all_events answered with `answers`, one per kind
RECURSIVE SyncAll(_, _)
SyncAll(table, answers) ==
    IF answers = << >> THEN table
    ELSE SyncAll(SyncKind(table, Head(answers)), Tail(answers))

C19_SyncAgainSameEvents ==
    \* one row per receipt number
    /\ \A x \in key_events : \A y \in key_events : x.rcept_no = y.rcept_no => x = y
    \* a statement whose receipt numbers are all stored changes nothing and
    \* does not fail
    /\ ev_pc = "insert" /\ (\A i \in DOMAIN ev_records : StoredEvent(ev_records[i], key_events)) =>
          LET res == ExecuteInsertKeyEvents(key_events, ev_records)
          IN  ~res.error /\ res.table = key_events /\ res.rowcount = 0
    \* a statement leaves every stored event as it is
    /\ ev_pc = "insert" =>
          key_events \subseteq ExecuteInsertKeyEvents(key_events, ev_records).table
    \* the second sync with the same answers leaves the table of the first
    /\ ev_pc = "idle" =>
          \A a1 \in EventAnswers : \A a2 \in EventAnswers :
             LET once == SyncAll(key_events, << a1, a2 >>)
             IN  SyncAll(once, << a1, a2 >>) = once

C19_StepsFollowSync ==
    /\ InsertEvents => /\ key_events' = ExecuteInsertKeyEvents(key_events, ev_records).table
                       /\ key_events \subseteq key_events'
                       /\ (\A i \in DOMAIN ev_records : StoredEvent(ev_records[i], key_events)) =>
                             /\ key_events' = key_events
                             /\ ev_stats'.errors = ev_stats.errors
                             /\ ev_stats'.successful = ev_stats.successful + 1
    /\ (\E answer \in EventAnswers : ListEvents(answer)) =>
          \E answer \in EventAnswers :
             /\ ev_records' = (IF client_list(answer).kind = "df"
                               THEN transform_events_data(client_list(answer).rows)
                               ELSE << >>)
             /\ \/ ev_pc' = "insert"
                \/ SyncKind(key_events, answer) = key_events
    /\ ~InsertEvents => key_events' = key_events

\* C19: a key-event insert ignores stored receipt numbers without an error and
\* a second sync with the same answers leaves the table of the first; the
\* steps of the sync write what SyncKind computes
C19_EventsIdempotent == []C19_SyncAgainSameEvents /\ [][C19_StepsFollowSync]_vars

\* the second statement of a sync met the receipt r1, stored by the first, with
\* another title, and inserted the event of the other company only
C19_Witness ==
    /\ ev_pc = "list"
    /\ ev_kind = 3
    /\ ev_stats.successful = 2
    /\ ev_rowcount = 1
    /\ \E i \in DOMAIN ev_records :
          \E x \in key_events :
             x.rcept_no = ev_records[i].rcept_no /\ x.report_nm # ev_records[i].report_nm


\* the notes the ingestion in hand writes, and their keys
NotesInHand == { NoteRecords(note_call, note_blocks, note_now)[i] : i \in DOMAIN note_blocks }
KeysInHand == { NoteKey(r) : r \in NotesInHand }

\* the ingestion in hand commits in this step
IngestionCommits ==
    /\ note_pc = "upsert"
    /\ note_pc' = "idle"
    /\ note_stats'.errors = note_stats.errors

C20_OneRowPerKey ==
    /\ \A x, y \in financial_notes : NoteKey(x) = NoteKey(y) => x = y
    /\ \A x \in financial_notes : x.fetched_at <= note_now

C20_StepsReplaceInPlace ==
    IF IngestionCommits
    THEN /\ \A r \in NotesInHand :
               \E x \in financial_notes' :
                  /\ NoteKey(x) = NoteKey(r)
                  /\ x.title = r.title
                  /\ x.content = r.content
                  /\ x.context_ref = r.context_ref
                  /\ x.fetched_at = note_now
                  /\ \A y \in financial_notes' : NoteKey(y) = NoteKey(r) => y = x
         /\ { x \in financial_notes' : NoteKey(x) \notin KeysInHand } =
            { x \in financial_notes : NoteKey(x) \notin KeysInHand }
    ELSE financial_notes' = financial_notes

\* C20: after any sequence of note ingestions there is at most one
\* financial-note row per (company, receipt number, concept), and it holds the
\* title, content, context reference and fetch time of the most recent
\* ingestion of that key: every ingestion that commits leaves, for each note
\* it carries, exactly one row of that key with the values it carries and the
\* time it read, and leaves the rows of other keys as they were; no other step
\* changes the table.
C20_NotesUpsertInPlace == []C20_OneRowPerKey /\ [][C20_StepsReplaceInPlace]_vars

\* C20 witness: the note c1 of a filing was stored at time 1 together with
\* c2 and fetched again at time 2 with another title, content and context;
\* the table holds the two rows, c1 with the later values.
C20_Witness ==
    /\ note_pc = "idle"
    /\ note_now = 2
    /\ Cardinality(financial_notes) = 2
    /\ \E x, y \in financial_notes :
          /\ x.corp_code = y.corp_code /\ x.rcept_no = y.rcept_no
          /\ x.concept_id = "c1" /\ x.fetched_at = 2
          /\ x.title = "T1b" /\ x.content = "w" /\ x.context_ref = "k2"
          /\ y.concept_id = "c2" /\ y.fetched_at = 1 /\ y.content = "y"

\* the priority flag of a company of the roster
IsPriority(c) == \E r \in Roster : r.corp_code = c /\ r.is_priority

\* the companies of `list` are those asked for, each once, priority companies
\* first and by ascending code within each class
InBackfillOrder(list, priority_only) ==
    /\ Range(list) = { r.corp_code : r \in { x \in Roster : priority_only => x.is_priority } }
    /\ \A i, j \in DOMAIN list :
          i < j => \/ IsPriority(list[i]) /\ ~IsPriority(list[j])
                   \/ IsPriority(list[i]) = IsPriority(list[j]) /\ list[i] < list[j]

\* the companies of `set` are the first ones of `list`
IsPrefixOf(set, list) == set = { list[i] : i \in 1 .. Cardinality(set) }

\* the command stops on the rate limit with action exit
ExitOnRateLimit ==
    /\ pc = "returned"
    /\ stats.rate_limited
    /\ pc' = "idle"
    /\ exit_state' = "ok"

\* the fleet loop works through `companies` in its order: a remote call is for
\* the company at company_idx, and company_idx moves one forward at most
FleetFollowsOrder ==
    /\ (InRun \/ pc = "driver") => InBackfillOrder(companies, cfg.priority_only)
    /\ IF pc' = "idle" \/ pc = "idle"
       THEN TRUE
       ELSE /\ company_idx' \in { company_idx, company_idx + 1 }
            /\ companies' = companies
            /\ IF CallStep THEN called' = called \cup { companies[company_idx] }
               ELSE called' = called

FinancialCounters(st) ==
    << st.financials_records, st.financials_companies, st.financials_errors >>

\* C22: monthly_sync_job issues line-item fetches only for units of the
\* current year (its four report periods) and never for a unit of an earlier
\* year; companies are taken from the whole roster, priority and non-priority
\* alike: once the loop has run through, every company of the roster has been
\* fetched for.
C22_CurrentYearOnly ==
    /\ \A f \in job_hist.fetched :
          /\ f[1] \in CorpCodes
          /\ f[2] = CurrentYear
          /\ f[3] \in Range(REPORT_CODES)
    /\ (job_pc = "events" /\ job_idx > Len(JobCompanies)) =>
          { f[1] : f \in job_hist.fetched } = CorpCodes

\* C22 witness: the loop has run through the roster and every unit of the
\* current year of every company, priority or not, has been fetched.
C22_Witness ==
    /\ job_pc = "events"
    /\ job_idx > Len(JobCompanies)
    /\ job_hist.fetched =
          { << c, CurrentYear, REPORT_CODES[i] >> : c \in CorpCodes, i \in DOMAIN REPORT_CODES }
    /\ \E c \in CorpCodes : IsPriority(c)
    /\ \E c \in CorpCodes : ~IsPriority(c)

\* C23 as stated: the event-sync phase runs exactly once whatever happened in
\* the financial phase, a failure of the event-sync phase neither raises out
\* of the job nor changes the financial counters or the stored financial
\* data, and the job returns its summary in all these cases.
C23_EventPhaseIndependent ==
    [][ /\ (job_pc = "loop" /\ job_pc' # "loop") => job_pc' = "events"
        /\ job_pc = "events" =>
              /\ job_pc' = "commit"
              /\ job_hist.event_runs = 0 /\ job_hist'.event_runs = 1
              /\ FinancialCounters(job_stats') = FinancialCounters(job_stats)
              /\ fundamentals' = fundamentals
              /\ progress' = progress
              /\ last_updated' = last_updated
              /\ job_out' = job_out
        /\ job_pc # "events" => job_hist'.event_runs = job_hist.event_runs \/ job_pc = "idle"
        /\ job_pc = "notify" => job_out' = "returned"
      ]_vars

\* C24 as stated: in the summary financials_errors is greater than zero
\* whenever a unit or company failed in the financial phase, events_errors is
\* greater than zero whenever an event fetch failed, and a run in which every
\* remote call failed never reports zero in both counters.
C24_FailuresCounted ==
    job_pc = "notify" =>
       /\ job_hist.unit_failed => job_stats.financials_errors > 0
       /\ job_hist.event_failed => job_stats.events_errors > 0
       /\ (job_hist.calls > 0 /\ job_hist.calls_failed = job_hist.calls) =>
             job_stats.financials_errors + job_stats.events_errors > 0

\* C25 as stated: last_updated of a company is changed only by the monthly
\* sync job and only after a successful pass for that company: not when its
\* backfill returned rate_limited=true (the loop stops there) or raised.
C25_LastUpdatedOnSuccess ==
    [][ \A c \in CorpCodes :
           last_updated'[c] # last_updated[c] =>
              /\ job_pc = "loop"
              /\ c = JobCompanies[job_idx]
              /\ job_pc' = "loop"
              /\ job_idx' = job_idx + 1
              /\ job_stats'.financials_errors = job_stats.financials_errors
      ]_vars

\* C26 as stated: the outcome the caller sees, the summary returned or the
\* original exception re-raised, is the same whatever the notifier does;
\* nothing of the notifier is raised to the caller.
C26_NotifierNeverChangesOutcome ==
    [][ /\ job_pc = "notify" => job_out' = "returned"
        /\ job_pc = "failed" => job_out' = "raised_original"
        /\ job_out' # "raised_notifier"
      ]_vars


\* the releases i and j of the throttle are at least request_delay apart
Apart(i, j) == released[j] - released[i] >= request_delay

\* C27: with one sequential caller, any two consecutive remote calls are
\* released at least request_delay apart, and the first call of a client is
\* released without waiting.
C27_SequentialReleasesApart ==
    /\ \A i \in 1 .. Len(released) - 1 : Apart(i, i + 1)
    /\ waited # << >> => ~waited[1]

\* two calls of different operations, the second released after a sleep of
\* exactly the time that was left
C27_Witness ==
    /\ Len(released) = 2
    /\ waited = << FALSE, TRUE >>
    /\ released[2] - released[1] = request_delay
    /\ th_pc[1] = "call"
    /\ th_op[1] = "list"

\* C28: with two or more callers on one client, under every interleaving no
\* two remote calls are released less than request_delay apart.
C28_ConcurrentReleasesApart ==
    \A i \in DOMAIN released : \A j \in DOMAIN released : i < j => Apart(i, j)

\* the text parse_amount tries to read: the string without blanks around it
\* and without commas
AmountText == Without(Strip(fn_arg.chars), ",")

\* a digit string with an optional leading minus sign
IsSignedDigits(text) ==
    IF text # << >> /\ Head(text) = "-" THEN isdigit(Tail(text)) ELSE isdigit(text)

\* the value of a digit string with an optional leading minus sign
SignedValue(text) ==
    IF Head(text) = "-" THEN 0 - DigitsValue(Tail(text), 0) ELSE DigitsValue(text, 0)

\* C29: parse_amount never raises; it returns null for a missing value, a
\* blank string, "-" and any text that is not an integer, and the integer
\* value for a comma-grouped digit string and for a numeric input.
C29_ParseAmountNeverRaises ==
    fn_call = "parse_amount" =>
        /\ fn_result # OverflowError
        /\ fn_arg.kind \in { "none", "nan" } => fn_result = None
        /\ fn_arg.kind = "num" => fn_result = Some(fn_arg.num)
        /\ fn_arg.kind = "str" /\ Strip(fn_arg.chars) \in { << >>, << "-" >> } => fn_result = None
        /\ fn_arg.kind = "str" /\ IsSignedDigits(AmountText) => fn_result = Some(SignedValue(AmountText))

\* the text handed to _normalize_code
CodeText == StrOf(fn_arg)

\* the digits of an input that is all digits, with or without a trailing ".0"
CodeDigits ==
    IF EndsWithPointZero(CodeText) THEN SubSeq(CodeText, 1, Len(CodeText) - 2) ELSE CodeText

\* d with zeros on its left, width characters in all
PaddedTo(d, width) ==
    [ i \in 1 .. width |-> IF i <= width - Len(d) THEN "0" ELSE d[i - (width - Len(d))] ]

\* C30: an all-digit input shorter than the canonical width (8 or 6), with or
\* without a trailing ".0", is returned as its digits left-padded with zeros to
\* that width, leading zeros kept; an all-digit input of exactly the width is
\* returned unchanged.
C30_CodesArePadded ==
    fn_call = "_normalize_code" /\ fn_arg.kind # "none" =>
        /\ isdigit(CodeDigits) /\ Len(CodeDigits) < fn_width =>
              fn_result = Some(PaddedTo(CodeDigits, fn_width))
        /\ isdigit(CodeText) /\ Len(CodeText) = fn_width => fn_result = Some(CodeText)

\* "07.0" as a company code becomes "00000007"
C30_Witness ==
    /\ fn_call = "_normalize_code"
    /\ fn_arg = Str(<< "0", "7", ".", "0" >>)
    /\ fn_width = CorpCodeWidth
    /\ fn_result = Some(<< "0", "0", "0", "0", "0", "0", "0", "7" >>)

(***************************************************************************)
(* C33.  A unit for which the remote answered no-data, or an empty result, *)
(* in one run is fetched again by a later run over the same range, so that *)
(* line items published afterwards are stored.                             *)
(***************************************************************************)
\* no line item of the unit at hand is stored
NoItemsStored == ItemsOfKey(fundamentals, CurKey) = EmptyBag

\* C33: a run that reaches a unit which an earlier run has dealt with, and of
\* which no line item is stored, fetches it
C33_NoDataUnitFetchedAgain ==
    [][ (pc = "check" /\ unit_idx <= NumUnits /\ ~EndStep
         /\ ProgressRows(progress, CurCorp, unit_idx) # { } /\ NoItemsStored) =>
          pc' = "fetch" /\ unit_idx' = unit_idx ]_vars

(***************************************************************************)
(* C34.  Within one sequential process, once a unit's checkpoint has        *)
(* status `completed` no later backfill or monthly-sync operation changes   *)
(* that row: it is never downgraded to `failed` or `rate_limited` and never *)
(* removed.                                                                 *)
(***************************************************************************)
\* C34: every step keeps every completed checkpoint row as it is, and no step
\* adds a second row for its unit
C34_CompletedStaysCompleted ==
    [][ \A p \in progress :
          p.status = "completed" =>
             /\ p \in progress'
             /\ \A q \in progress' : ProgressKey(q) = ProgressKey(p) => q = p ]_vars

\* a retry of the company has fetched a later unit and returned, and the
\* completed checkpoint of unit 1 is still there
C34_Witness ==
    /\ pc = "returned"
    /\ retry_of # 0
    /\ run_calls # << >>
    /\ \A i \in DOMAIN run_calls : run_calls[i] > 1
    /\ HasCheckpoint(progress, CurCorp, 1, "completed")

(***************************************************************************)
(* C35.  When backfill_company returns, successful + skipped + errors +    *)
(* (1 if rate_limited else 0) equals the number of units for which a       *)
(* remote fetch was issued in that run; a unit passed over because its     *)
(* checkpoint is `completed` is counted in none of the counters, and       *)
(* total_records is the sum of the written counts of the units counted as  *)
(* successful.                                                             *)
(***************************************************************************)
\* the units the run has counted in one of its counters or in its flag
UnitsCounted(st) ==
    st.successful + st.skipped + st.errors + (IF st.rate_limited THEN 1 ELSE 0)

\* C35: the counters of a run that returns add up to its remote calls, and
\* total_records is the number of rows its inserts wrote
C35_CountersMatchFetches ==
    pc = "returned" =>
        /\ UnitsCounted(stats) = Len(run_calls)
        /\ stats.total_records = run_written

(***************************************************************************)
(* C36.  In a fleet backfill with action `pause`, each unit contributes at *)
(* most once to the aggregate counters (successful, skipped, errors) of    *)
(* the run, however many times its company is retried after a rate limit;  *)
(* in particular the aggregate errors never exceeds the number of distinct *)
(* units that failed.                                                      *)
(***************************************************************************)
\* how many times the command has counted unit k of company c
TimesCounted(c, k) ==
    LET of == { e \in BagToSet(tallied) : e.corp_code = c /\ e.unit = k }
    IN  BagCardinality([ e \in of |-> CopiesIn(e, tallied) ])

\* the units the command has counted as errors
UnitsFailed ==
    { << e.corp_code, e.unit >> : e \in { x \in BagToSet(tallied) : x.counter = "errors" } }

\* C36: between two company runs of a command with action pause, no unit has
\* been counted twice and the aggregate errors is at most the number of
\* units that failed
C36_UnitCountedOnce ==
    (pc = "driver" /\ cfg.on_rate_limit = "pause") =>
        /\ \A e \in BagToSet(tallied) : TimesCounted(e.corp_code, e.unit) <= 1
        /\ aggregate.errors <= Cardinality(UnitsFailed)

(***************************************************************************)
(* C37.  The aggregate summary of a fleet backfill reports                 *)
(* rate_limited = true only if the run ended because of rate limiting; a   *)
(* run that paused on a rate limit, resumed and then finished every        *)
(* company reports rate_limited = false.                                   *)
(***************************************************************************)
\* this step is the end of a command that has gone through every company
FinishStep == pc = "driver" /\ company_idx > Len(companies) /\ pc' = "idle"

\* C37: the summary of a command that finishes every company does not say
\* rate_limited
C37_RateLimitedOnlyWhenEnded ==
    [][ FinishStep => ~aggregate'.rate_limited ]_vars

(***************************************************************************)
(* C39.  Under action `pause`, if the remote answers the rate-limit error  *)
(* only finitely many times, the fleet backfill eventually terminates      *)
(* having reached every unit of every company (each unit fetched or        *)
(* skipped as completed); the number of pause-and-retry rounds for one     *)
(* company is not bounded by the driver.                                   *)
(***************************************************************************)
\* every unit of every company has a checkpoint: it was fetched by this
\* command, or passed over as completed
EveryUnitReached ==
    \A c \in CorpCodes : \A k \in UnitIdxs : ProgressRows(progress, c, k) # { }

\* C39: a started command ends through the end of its loop with every unit
\* reached, and whenever a company run returns rate limited, however many
\* times before, the driver runs the same company again
C39_PauseTerminates ==
    /\ (exit_state = "running") ~> (exit_state = "ok" /\ EveryUnitReached)
    /\ [][ (pc = "returned" /\ stats.rate_limited) =>
             pc' = "driver" /\ company_idx' = company_idx ]_vars

\* the command has ended after the remote limited it as often as it could,
\* at least twice for the same company
C39_Witness ==
    /\ exit_state = "ok"
    /\ EveryUnitReached
    /\ aggregate.rate_limited
    /\ n_calls >= NumCompanies * NumUnits + MaxCalls


(***************************************************************************)
(* C38.  Two backfill runs over the same units, interleaved statement by   *)
(* statement and call by call: the store never holds two checkpoint rows   *)
(* for one unit, nor two line-item rows for one (business key, version),   *)
(* and no run raises.                                                      *)
(***************************************************************************)
C38_RacingRunsKeepStoreUnique ==
    /\ \A p, q \in progress : ProgressKey(p) = ProgressKey(q) => p = q
    /\ UniqueEntries(fundamentals)
    /\ race # << >> => \A r \in Racers : race[r].pc # "raised"

\* both runs inserted line items for one unit and both returned
C38_Witness ==
    /\ race # << >>
    /\ \A r \in Racers : race[r].pc = "returned"
    /\ race[1].wrote \cap race[2].wrote # { }
    /\ fundamentals # EmptyBag


(***************************************************************************)
(* C32.  Roster ingestion creates at most one company per normalized       *)
(* company code.  As stated: a row with code and name whose code occurred  *)
(* in an earlier row of the file, or is stored, creates nothing, changes   *)
(* no company and is counted in skipped_duplicates; a row with a blank     *)
(* code or name creates nothing and is counted in skipped_invalid.  A row  *)
(* whose lookup raised is counted in errors and is left aside.             *)
(***************************************************************************)
OneCompanyPerCode ==
    \A i, j \in DOMAIN row_log :
        (i < j /\ row_log[i].outcome = "created" /\ row_log[j].outcome = "created")
            => row_log[i].code # row_log[j].code

InvalidRowsSkipped ==
    \A i \in DOMAIN row_log :
        ~row_log[i].valid => row_log[i].outcome = "skipped_invalid" /\ row_log[i].same_view

C32_CodeSeenEarlierSkipped ==
    /\ OneCompanyPerCode
    /\ InvalidRowsSkipped
    /\ \A i \in DOMAIN row_log :
          (/\ row_log[i].valid
           /\ row_log[i].outcome # "errors"
           /\ \/ row_log[i].stored
              \/ \E j \in 1 .. i - 1 : row_log[j].code = row_log[i].code)
              => row_log[i].outcome = "skipped_duplicates" /\ row_log[i].same_view

\* C32 amended: the earlier row that makes a row a duplicate is one with a
\* code and a name; a code met only in rows skipped as invalid is new
C32_CodeOfEarlierValidRowSkipped ==
    /\ OneCompanyPerCode
    /\ InvalidRowsSkipped
    /\ \A i \in DOMAIN row_log :
          (/\ row_log[i].valid
           /\ row_log[i].outcome # "errors"
           /\ \/ row_log[i].stored
              \/ \E j \in 1 .. i - 1 : row_log[j].valid /\ row_log[j].code = row_log[i].code)
              => row_log[i].outcome = "skipped_duplicates" /\ row_log[i].same_view
    /\ \A i \in DOMAIN row_log :
          (/\ row_log[i].valid
           /\ row_log[i].outcome = "skipped_duplicates")
              => \/ row_log[i].stored
                 \/ \E j \in 1 .. i - 1 : row_log[j].valid /\ row_log[j].code = row_log[i].code

\* the ingestion returned after a row was created and a later row with the
\* same code in another spelling was skipped as a duplicate
C32_Witness ==
    /\ ing_pc = "returned"
    /\ \E i, j \in DOMAIN row_log :
          /\ i < j
          /\ row_log[i].outcome = "created"
          /\ row_log[j].outcome = "skipped_duplicates"
          /\ row_log[j].code = row_log[i].code
          /\ csv_rows[i].corp_code # csv_rows[j].corp_code


(***************************************************************************)
(* C40.  When ingest_companies_from_csv returns, each row of the file has  *)
(* been counted in exactly one of created, skipped_duplicates,             *)
(* skipped_invalid, skipped_stock_conflicts and errors, so that these sum  *)
(* to total_rows, and created is the number of companies the ingestion     *)
(* added to the store.                                                     *)
(***************************************************************************)
RowCounters ==
    { "created", "skipped_duplicates", "skipped_invalid", "skipped_stock_conflicts", "errors" }

CompaniesAdded == { x \in co_table : \A y \in co_before : y.corp_code # x.corp_code }

C40_EveryRowCountedOnce ==
    ing_pc = "returned" =>
        /\ Len(row_log) = Len(csv_rows)
        /\ ing_stats.total_rows = Len(csv_rows)
        /\ \A counter \in RowCounters :
              ing_stats[counter] =
                  Cardinality({ i \in DOMAIN row_log : row_log[i].outcome = counter })
        /\ ing_stats.created + ing_stats.skipped_duplicates + ing_stats.skipped_invalid
              + ing_stats.skipped_stock_conflicts + ing_stats.errors = ing_stats.total_rows
        /\ ing_stats.created = Cardinality(CompaniesAdded)

\* the ingestion returned having created a company from one row and counted
\* another row, whose lookup raised, under errors
C40_Witness ==
    /\ ing_pc = "returned"
    /\ ing_stats.created = 1
    /\ ing_stats.errors = 1
    /\ Cardinality(CompaniesAdded) = 1


(***************************************************************************)
(* C31.  A roster row with a new code whose ticker another company holds:  *)
(* when the holder is not delisted the row is skipped and no company       *)
(* changes, under either policy; when the holder is delisted, `reassign`   *)
(* clears the holder's ticker and creates the row's company with it, and   *)
(* `reject` skips the row and changes no company.  After the ingestion no  *)
(* two companies of the store have the same ticker.  The holder is the     *)
(* company that has the ticker when the row is read, stored before the     *)
(* ingestion or created by an earlier row of the file.                     *)
(***************************************************************************)
TickerCases ==
    { i \in DOMAIN row_log : /\ row_log[i].valid
                             /\ row_log[i].outcome \notin { "skipped_duplicates", "errors" }
                             /\ row_log[i].holder # "none" }

TickersUnique(table) ==
    \A x, y \in table : (x.stock_code # None /\ x.stock_code = y.stock_code) => x = y

C31_HeldTickerNeverShared ==
    /\ \A i \in TickerCases :
          IF row_log[i].holder = "delisted" /\ on_stock_code_reuse = "reassign"
          THEN row_log[i].outcome = "created" /\ row_log[i].sole_holder
          ELSE row_log[i].outcome = "skipped_stock_conflicts" /\ row_log[i].same_view
    /\ ing_pc \in { "returned", "raised" } => TickersUnique(co_table)

====
